---------------------------- MODULE Spec2Model ----------------------------
(***************************************************************************)
(* Model of the AI C test generator: the Regeneration Controller of        *)
(* cli.py (main), the Generation Service Adapter and the Output Normalizer *)
(* of generator.py (SmartTestGenerator) and the Static Validator of        *)
(* validator.py (TestValidator).                                           *)
(*                                                                         *)
(* A text is the sequence of its lines (text.split("\n")); a line is the   *)
(* C line itself, as a string.  The regular expressions of the code are    *)
(* modelled by what they match on the lines of the alphabet below.         *)
(***************************************************************************)
EXTENDS Integers, Sequences, FiniteSets, TLC

(***************************************************************************)
(* Bounds of the model.                                                    *)
(***************************************************************************)
NumFiles == 2
MaxM == 2
NumModels == 3

(***************************************************************************)
(* The lines of generated test texts.                                      *)
(***************************************************************************)
\* The code-fence marker is three backquotes; a backquote cannot be written
\* in a string of this language, so an apostrophe stands for it.
FenceC == "'''c"
Fence == "'''"
IncUnity == "#include \"unity.h\""
IncFake == "#include \"fake_hal.h\""
IncSensor == "#include \"sensor.h\""
SetUpDef == "void setUp(void) { }"
TearDownDef == "void tearDown(void) { }"
TRead == "void test_read(void) { TEST_ASSERT_EQUAL_FLOAT(25.0f, read_temp()); }"
TReadWithin == "void test_read(void) { TEST_ASSERT_FLOAT_WITHIN(0.01f, 25.0f, read_temp()); }"
TMax == "void test_max_limit(void) { TEST_ASSERT_TRUE(ok); }"
TInit == "void test_init(void) { TEST_ASSERT_TRUE(ok); TEST_ASSERT_FALSE(ok); }"
THot == "void test_temperature_max(void) { check(250.0f, temp); }"
TempOver == "set_temperature(130.0f, temp);"
TempNominal == "set_temperature(25.0f, temp);"
MainCall == "main();"
AbsZero == "float t = -273.15f;"
TZero == "float t = 0.0f;"
StubVar == "static int g_calls;"
Blank == ""
MainOpen == "int main(void) {"
UnityBegin == "    UNITY_BEGIN();"
UnityEnd == "    return UNITY_END();"
MainClose == "}"

RunTestFlat(name) == "RUN_TEST(" \o name \o ");"
RunTest(name) == "    " \o RunTestFlat(name)
TestNames == {"test_read", "test_max_limit", "test_init", "test_temperature_max"}

\* re.findall(r"void\s+(test_\w+)\s*\(", line): the test function a line defines
TestNameOf(line) ==
    CASE line \in {TRead, TReadWithin} -> <<"test_read">>
      [] line = TMax -> <<"test_max_limit">>
      [] line = TInit -> <<"test_init">>
      [] line = THot -> <<"test_temperature_max">>
      [] OTHER -> <<>>

(***************************************************************************)
(* Output Normalizer: SmartTestGenerator._post_process_test_code.          *)
(***************************************************************************)
FenceLines == {FenceC, Fence}
BraceLines == {SetUpDef, TearDownDef, TRead, TReadWithin, TMax, TInit, THot, MainClose}

\* the line without its leading white space
LStrip(line) ==
    CASE line = UnityBegin -> "UNITY_BEGIN();"
      [] line = UnityEnd -> "return UNITY_END();"
      [] \E n \in TestNames : line = RunTest(n) ->
            RunTestFlat(CHOOSE n \in TestNames : line = RunTest(n))
      [] OTHER -> line

\* the text without its leading white space: the blank lines at its start
\* go, and so does the indentation of its first non-blank line
RECURSIVE DropLeadingBlank(_)
DropLeadingBlank(text) ==
    IF text = <<>> THEN <<>>
    ELSE IF Head(text) = Blank THEN DropLeadingBlank(Tail(text))
    ELSE <<LStrip(Head(text))>> \o Tail(text)

RECURSIVE DropTrailingBlank(_)
DropTrailingBlank(text) ==
    IF text # <<>> /\ text[Len(text)] = Blank
    THEN DropTrailingBlank(SubSeq(text, 1, Len(text) - 1))
    ELSE text

\* str.strip() of the response text (generator.py 210): the white space at
\* both ends goes, that is the blank lines at both ends and the indentation
\* of the first line left (no line of the alphabet ends with white space)
Strip(text) ==
    LET t == DropTrailingBlank(DropLeadingBlank(text))
    IN  IF t = <<>> THEN <<Blank>> ELSE t

\* re.sub(r'^```c?\s*', '', ..., MULTILINE) then re.sub(r'```\s*$', '', ...):
\* a fence line goes together with the white space after it, newlines
\* included; a fence that ends the text leaves an empty last line
RECURSIVE StripFences(_)
StripFences(text) ==
    IF text = <<>> THEN <<>>
    ELSE IF Head(text) \in FenceLines
         THEN LET rest == DropLeadingBlank(Tail(text))
              IN  IF rest = <<>> THEN <<Blank>>
                  ELSE IF Head(rest) \in FenceLines THEN StripFences(rest)
                  ELSE <<LStrip(Head(rest))>> \o StripFences(Tail(rest))
         ELSE <<Head(text)>> \o StripFences(Tail(text))

\* the substitutions that rewrite inside one line (float assertion, macro
\* names, literals, main() calls, console I/O), on the lines of the alphabet
FixLine(line) ==
    CASE line = TRead -> TReadWithin
      [] line = AbsZero -> TZero
      [] line = MainCall -> Blank
      [] OTHER -> line

FixLines(text) == [i \in 1..Len(text) |-> FixLine(text[i])]

\* index of the first line of text, from index i on, that is in S; 0 if none
RECURSIVE FirstIn(_, _, _)
FirstIn(text, i, S) ==
    IF i > Len(text) THEN 0
    ELSE IF text[i] \in S THEN i ELSE FirstIn(text, i + 1, S)

\* re.sub(r"int\s+main\s*\([^)]*\)\s*{[^}]*}", "", ..., DOTALL): a main
\* definition goes, up to the first closing brace; its lines leave one
\* empty line
RECURSIVE RemoveMainDef(_)
RemoveMainDef(text) ==
    LET i == FirstIn(text, 1, {MainOpen})
        j == IF i = 0 THEN 0 ELSE FirstIn(text, i + 1, BraceLines)
    IN  IF i = 0 \/ j = 0 THEN text
        ELSE SubSeq(text, 1, i - 1) \o <<Blank>>
             \o RemoveMainDef(SubSeq(text, j + 1, Len(text)))

\* re.match(r"#include\s+[\"<]([^\">]+)[\">]", line): the header a line includes
IncludeHeader(line) ==
    CASE line = IncUnity -> <<"unity.h">>
      [] line = IncFake -> <<"fake_hal.h">>
      [] line = IncSensor -> <<"sensor.h">>
      [] OTHER -> <<>>

EndsWithDotH(header) == header \in {"unity.h", "fake_hal.h", "sensor.h", "main.h"}

\* the include filter of lines 455-479
KeepLine(line, source_includes) ==
    IF line = IncUnity THEN TRUE
    ELSE IF IncludeHeader(line) # <<>>
         THEN LET header_name == IncludeHeader(line)[1]
              IN  /\ \/ \E k \in 1..Len(source_includes) : source_includes[k] = header_name
                     \/ EndsWithDotH(header_name)
                  /\ ~(header_name = "main.h"
                       /\ ~\E k \in 1..Len(source_includes) : source_includes[k] = "main.h")
         ELSE TRUE

FilterIncludes(text, source_includes) ==
    SelectSeq(text, LAMBDA line : KeepLine(line, source_includes))

\* a normalizer that leaves the includes as the filter left them
EnsureUnity_absent(cleaned_lines) == cleaned_lines

\* lines 481-484
EnsureUnity(cleaned_lines) ==
    IF \E i \in 1..Len(cleaned_lines) : cleaned_lines[i] = IncUnity
    THEN cleaned_lines
    ELSE <<IncUnity>> \o cleaned_lines

\* re.findall(r"void\s+(test_\w+)\s*\(", text), in the order discovered
RECURSIVE TestFunctions(_)
TestFunctions(text) ==
    IF text = <<>> THEN <<>> ELSE TestNameOf(Head(text)) \o TestFunctions(Tail(text))

\* lines 486-496
AppendMain(text) ==
    LET test_functions == TestFunctions(text)
    IN  IF test_functions = <<>> THEN text
        ELSE text \o <<Blank, MainOpen, UnityBegin, Blank>>
                  \o [i \in 1..Len(test_functions) |-> RunTest(test_functions[i])]
                  \o <<Blank, UnityEnd, MainClose>>

post_process_test_code(test_code, source_includes) ==
    AppendMain(EnsureUnity(FilterIncludes(
        RemoveMainDef(FixLines(StripFences(test_code))), source_includes)))

(***************************************************************************)
(* The source files of the repository under test, as the Dependency        *)
(* Indexer reports them: content lines, includes, functions.               *)
(***************************************************************************)
SrcVolatile == "volatile uint32_t *REG_CTRL;"
SrcBitField == "unsigned ready : 1;"
SrcState == "int next_state(int state) { return state + 1; }"
SrcTmr == "int tmr_vote(int a, int b, int c) { return a; }"
SrcWdt == "void wdt_feed(void) { }"
SrcDma == "void dma_start(void) { }"
SrcAdd == "int add(int a, int b) { return a + b; }"

RichSource ==
    [path |-> "src/sensor.c",
     content |-> <<SrcVolatile, SrcBitField, SrcState, SrcTmr, SrcWdt, SrcDma>>,
     includes |-> <<"sensor.h">>,
     called_functions |-> <<"add", "wdt_feed", "printf">>,
     functions |-> <<[name |-> "next_state", return_type |-> "int"],
                     [name |-> "tmr_vote", return_type |-> "int"],
                     [name |-> "wdt_feed", return_type |-> "void"],
                     [name |-> "dma_start", return_type |-> "void"]>>]

PlainSource ==
    [path |-> "src/util.c",
     content |-> <<SrcAdd>>,
     includes |-> <<>>,
     called_functions |-> <<"add", "memcpy">>,
     functions |-> <<[name |-> "add", return_type |-> "int"]>>]

VARIABLE
    c_files                 \* paths of the files of the run, in processing order

\* cli.py 302-312: the .c files of the source directory other than main.c,
\* in the order os.walk lists them, which is the order of the file system:
\* either file may come first
Listings ==
    {[i \in 1..NumFiles |-> IF (i + k) % 2 = 1 THEN RichSource.path ELSE PlainSource.path]
     : k \in {0, 1}}

\* the source file at a path
SourceAt(path) == IF path = RichSource.path THEN RichSource ELSE PlainSource

\* the i-th file of c_files
SourceFile(i) == SourceAt(c_files[i])

\* the source files of the repository, which build_dependency_map walks
RepositoryFiles == [i \in 1..Len(c_files) |-> SourceFile(i)]

Contains(seq, x) == \E i \in 1..Len(seq) : seq[i] = x

\* the analysis of a source file: its path, the functions it defines and
\* the functions it calls
analyze_file_dependencies(source) ==
    [file_path |-> source.path,
     functions |-> source.functions,
     called_functions |-> source.called_functions]

\* generator.py 168-182: function name -> path of the file defining it; a
\* name defined by several files is mapped to the last of them
build_dependency_map(files) ==
    LET names == UNION {{files[i].functions[k].name : k \in 1..Len(files[i].functions)}
                        : i \in 1..Len(files)}
        Defines(i, name) ==
            \E k \in 1..Len(files[i].functions) : files[i].functions[k].name = name
        Last(name) ==
            CHOOSE i \in 1..Len(files) :
                /\ Defines(i, name)
                /\ \A j \in (i + 1)..Len(files) : ~Defines(j, name)
    IN  [name \in names |-> files[Last(name)].path]

\* a needs-stub list that ignores which file owns the function
needs_stubs_any_owner(a, map, file_path) ==
    LET implemented_functions == {a.functions[k].name : k \in 1..Len(a.functions)}
    IN  SelectSeq(a.called_functions,
                  LAMBDA called_func :
                      /\ called_func \notin implemented_functions
                      /\ called_func \in DOMAIN map)

\* generator.py 191-200: the called functions, in call-list order, that
\* the file does not define and that the map gives to another file
needs_stubs(a, map, file_path) ==
    LET implemented_functions == {a.functions[k].name : k \in 1..Len(a.functions)}
    IN  SelectSeq(a.called_functions,
                  LAMBDA called_func :
                      /\ called_func \notin implemented_functions
                      /\ called_func \in DOMAIN map
                      /\ map[called_func] # file_path)

(***************************************************************************)
(* Static Validator: TestValidator.                                        *)
(***************************************************************************)
\* _extract_test_functions: r'(\w+)\s+(\w+)\s*\([^)]*\)\s*{' on one line
FuncDefOf(line) ==
    CASE line = SetUpDef -> <<[name |-> "setUp", return_type |-> "void"]>>
      [] line = TearDownDef -> <<[name |-> "tearDown", return_type |-> "void"]>>
      [] line \in {TRead, TReadWithin} -> <<[name |-> "test_read", return_type |-> "void"]>>
      [] line = TMax -> <<[name |-> "test_max_limit", return_type |-> "void"]>>
      [] line = TInit -> <<[name |-> "test_init", return_type |-> "void"]>>
      [] line = THot -> <<[name |-> "test_temperature_max", return_type |-> "void"]>>
      [] line = MainOpen -> <<[name |-> "main", return_type |-> "int"]>>
      [] OTHER -> <<>>

RECURSIVE extract_test_functions(_)
extract_test_functions(content) ==
    IF content = <<>> THEN <<>>
    ELSE FuncDefOf(Head(content)) \o extract_test_functions(Tail(content))

\* 'test_' in name, name.startswith('test_')
IsTestName(name) == name \in TestNames

\* an indicator of edge_case_indicators occurs in name.lower()
HasEdgeIndicator(name) == name \in {"test_max_limit", "test_temperature_max"}

standard_headers ==
    {"stdio.h", "stdlib.h", "string.h", "math.h", "assert.h", "ctype.h", "errno.h",
     "limits.h", "stdarg.h", "stddef.h", "stdint.h", "stdbool.h", "time.h"}

\* header in inc, as a substring, on the header names of the model
IsSubstring(header, inc) == header = inc

RECURSIVE Join(_, _)
Join(strs, sep) ==
    IF strs = <<>> THEN ""
    ELSE IF Len(strs) = 1 THEN strs[1]
    ELSE strs[1] \o sep \o Join(Tail(strs), sep)

\* str(list of str)
PyList(strs) == "[" \o Join([i \in 1..Len(strs) |-> "'" \o strs[i] \o "'"], ", ") \o "]"

AddIssue(result, issue) == [result EXCEPT !.issues = Append(@, issue)]
\* an issue of compilation safety that leaves the compiles flag as it is
Broken_flag_kept(result, issue) == AddIssue(result, issue)

\* an issue of compilation safety: the file does not compile
Broken(result, issue) == [AddIssue(result, issue) EXCEPT !.compiles = FALSE]

\* a realism failure that lowers the flag and records nothing
Unreal_silent(result, issue) == [result EXCEPT !.realistic = FALSE]

\* an issue of realism: the file is not realistic
Unreal(result, issue) == [AddIssue(result, issue) EXCEPT !.realistic = FALSE]

RECURSIVE AddIssues(_, _)
AddIssues(result, issues) ==
    IF issues = <<>> THEN result
    ELSE AddIssues(AddIssue(result, Head(issues)), Tail(issues))

RECURSIVE Headers(_)
Headers(content) ==
    IF content = <<>> THEN <<>> ELSE IncludeHeader(Head(content)) \o Headers(Tail(content))

RECURSIVE Repeat(_, _)
Repeat(seq, n) == IF n = 0 THEN <<>> ELSE seq \o Repeat(seq, n - 1)

\* the stub return-type check of lines 104-115: for every function of the
\* test text whose name has 'test_', every definition of the text whose
\* name is a source function of another return type
StubMismatches(test_functions, source_functions) ==
    LET Match(d) == FirstIn([k \in 1..Len(source_functions) |-> source_functions[k].name],
                            1, {d.name})
        defs == SelectSeq(test_functions, LAMBDA d :
                    /\ Match(d) # 0
                    /\ source_functions[Match(d)].return_type # d.return_type)
        one == [i \in 1..Len(defs) |->
                  "Stub function " \o defs[i].name \o " return type mismatch: "
                  \o defs[i].return_type \o " vs "
                  \o source_functions[Match(defs[i])].return_type]
    IN  Repeat(one, Len(SelectSeq(test_functions, LAMBDA d : IsTestName(d.name))))

check_compilation_safety(test_content, source_functions, source_includes, result) ==
    LET r1 == IF \E i \in 1..Len(test_content) : test_content[i] \in FenceLines
              THEN Broken(result,
                     "Found markdown code block markers (''') - should be removed")
              ELSE result
        r2 == IF ~Contains(test_content, IncUnity)
              THEN Broken(r1, "Missing required Unity include: #include \"unity.h\"")
              ELSE r1
        invalid_includes ==
            SelectSeq(Headers(test_content), LAMBDA header :
                /\ header # "unity.h"
                /\ header \notin standard_headers
                /\ ~Contains(source_includes, header)
                /\ ~\E k \in 1..Len(source_includes) : IsSubstring(header, source_includes[k]))
        r3 == IF invalid_includes # <<>>
              THEN Broken(r2, "Invalid includes for non-existent headers: "
                              \o PyList(invalid_includes))
              ELSE r2
        test_functions == extract_test_functions(test_content)
        mismatches == StubMismatches(test_functions, source_functions)
        r4 == IF mismatches # <<>>
              THEN [AddIssues(r3, mismatches) EXCEPT !.compiles = FALSE]
              ELSE r3
        function_names == [i \in 1..Len(test_functions) |-> test_functions[i].name]
        duplicates == SelectSeq(function_names, LAMBDA n :
                          Cardinality({i \in 1..Len(function_names) : function_names[i] = n}) > 1)
        r5 == IF duplicates # <<>>
              THEN Broken(r4, "Duplicate function definitions: " \o PyList(duplicates))
              ELSE r4
        \* no line of the alphabet declares main extern
        main_calls == Contains(test_content, MainCall)
        r6 == IF main_calls
              THEN Broken(r5, "Invalid call to main() function - not suitable for unit testing")
              ELSE r5
    IN  r6

FloatEqualIssue ==
    "TEST_ASSERT_EQUAL_FLOAT used - will fail due to precision. Use TEST_ASSERT_FLOAT_WITHIN instead"

\* the issues of the impossible_patterns loop, one per line and pattern
RECURSIVE ImpossibleIssues(_, _)
ImpossibleIssues(test_content, i) ==
    IF i > Len(test_content) THEN <<>>
    ELSE (IF test_content[i] = AbsZero
          THEN <<"Line " \o ToString(i)
                 \o ": Absolute zero temperature test - physically impossible - unrealistic test scenario">>
          ELSE <<>>) \o ImpossibleIssues(test_content, i + 1)

\* what the three temp_assignment_patterns capture on one line, pattern by
\* pattern: the literal and its value
TempMatches(line, pattern) ==
    CASE pattern = 2 /\ line = TReadWithin -> <<[val |-> "25.0", temp |-> 25]>>
      [] pattern = 3 /\ line = THot -> <<[val |-> "250.0", temp |-> 250]>>
      [] pattern = 3 /\ line = TempOver -> <<[val |-> "130.0", temp |-> 130]>>
      [] pattern = 3 /\ line = TempNominal -> <<[val |-> "25.0", temp |-> 25]>>
      [] OTHER -> <<>>

RECURSIVE TempValues(_, _)
TempValues(test_content, pattern) ==
    IF test_content = <<>> THEN <<>>
    ELSE TempMatches(Head(test_content), pattern) \o TempValues(Tail(test_content), pattern)

\* val in line and ('rand' in line.lower() or 'stub_rand' in line or
\* 'return_value' in line): no line of the alphabet names rand or return_value
RawAdcContext(test_content, val) == FALSE

TemperatureIssues(test_content) ==
    LET matches == TempValues(test_content, 1) \o TempValues(test_content, 2)
                   \o TempValues(test_content, 3)
        checked == SelectSeq(matches, LAMBDA m :
                       ~(m.temp >= 0 /\ m.temp <= 1023 /\ RawAdcContext(test_content, m.val)))
        high == SelectSeq(checked, LAMBDA m : m.temp > 200)
    IN  [i \in 1..Len(high) |->
            "Temperature value " \o high[i].val
            \o " seems unreasonably high (valid range: -40C to 125C)"]

\* 'temperature' in line.lower() or 'celsius' in line.lower()
TemperatureLines ==
    {THot, TempOver, TempNominal, RunTest("test_temperature_max"),
     RunTestFlat("test_temperature_max")}

check_reality_tests(test_content, source_functions, result) ==
    LET r1 == IF Contains(test_content, TRead) THEN Unreal(result, FloatEqualIssue) ELSE result
        imp == ImpossibleIssues(test_content, 1)
        r2 == IF imp # <<>> THEN [AddIssues(r1, imp) EXCEPT !.realistic = FALSE] ELSE r1
        float_assertions == Contains(test_content, TReadWithin)
        float_equal_assertions == Contains(test_content, TRead)
        r3 == IF float_equal_assertions /\ ~float_assertions
              THEN Unreal(r2, FloatEqualIssue)
              ELSE r2
        temps == IF \E i \in 1..Len(test_content) : test_content[i] \in TemperatureLines
                 THEN TemperatureIssues(test_content) ELSE <<>>
        r4 == IF temps # <<>> THEN [AddIssues(r3, temps) EXCEPT !.realistic = FALSE] ELSE r3
    IN  r4

assess_test_quality(test_content, source_functions, result) ==
    LET test_functions == extract_test_functions(test_content)
        test_names == SelectSeq([i \in 1..Len(test_functions) |-> test_functions[i].name],
                                IsTestName)
        has_edge_cases == \E i \in 1..Len(test_names) : HasEdgeIndicator(test_names[i])
        r1 == IF ~has_edge_cases /\ Len(test_names) > 1
              THEN AddIssue(result, "Missing edge case tests (min/max values, boundaries)")
              ELSE result
        has_setup == Contains(test_content, SetUpDef)
        has_teardown == Contains(test_content, TearDownDef)
        stub_variables == Contains(test_content, StubVar)
        \* no line of the alphabet has 'reset_', and tearDown's body resets nothing
        has_reset_functions == FALSE
        has_direct_resets == FALSE
        r2 == IF has_setup /\ has_teardown /\ stub_variables
                 /\ ~has_reset_functions /\ ~has_direct_resets
              THEN AddIssue(r1,
                     "tearDown() function should reset stub variables (call counts and return values)")
              ELSE r1
        r3 == IF Len(test_names) = 0
              THEN AddIssue(r2, "No test functions found (functions should start with 'test_')")
              ELSE r2
        r4 == IF ~(has_setup /\ has_teardown) /\ Len(test_names) > 1
              THEN AddIssue(r3,
                     "Multiple tests without setUp/tearDown - may not be properly isolated")
              ELSE r3
    IN  r4

\* the variables a line asserts TRUE and asserts FALSE
TrueVars(line) == IF line \in {TMax, TInit} THEN {"ok"} ELSE {}
FalseVars(line) == IF line = TInit THEN {"ok"} ELSE {}

\* re.split(r'void test_\w+\s*\(', text)[1:]: section k runs from the k-th
\* test definition to the line before the next one
TestDefIndices(test_content) ==
    SelectSeq([i \in 1..Len(test_content) |-> i],
              LAMBDA i : TestNameOf(test_content[i]) # <<>>)

verify_logical_consistency(test_content, result) ==
    LET starts == TestDefIndices(test_content)
        SectionEnd(k) == IF k < Len(starts) THEN starts[k + 1] - 1 ELSE Len(test_content)
        Common(k) ==
            UNION {TrueVars(test_content[i]) : i \in starts[k]..SectionEnd(k)}
            \cap UNION {FalseVars(test_content[i]) : i \in starts[k]..SectionEnd(k)}
        bad == SelectSeq([k \in 1..Len(starts) |-> k], LAMBDA k : Common(k) # {})
        \* no line of the alphabet has an integer TEST_ASSERT_EQUAL
    IN  AddIssues(result,
            [n \in 1..Len(bad) |->
                "Test test_" \o ToString(bad[n])
                \o ": contradictory assertions for variables {'ok'}"])

HasAny(content, lines) == \E i \in 1..Len(content) : content[i] \in lines

\* the lines of the test alphabet in which the vocabulary of each
\* domain-feature check occurs
TestVolatileLines == {}
TestBitOpLines == {}
TestTransitionLines == {}
TestVotingLines == {}
TestWatchdogLines == {}
TestHardwareLines == {}
TestRegisterLines ==
    {TRead, TReadWithin, AbsZero, TZero, RunTest("test_read"), RunTestFlat("test_read")}

check_embedded_features(test_content, source_content, result) ==
    LET r1 == IF HasAny(source_content, {SrcVolatile}) /\ ~HasAny(test_content, TestVolatileLines)
              THEN Broken(result,
                     "Source uses volatile registers but tests don't handle volatile semantics")
              ELSE result
        r2 == IF HasAny(source_content, {SrcBitField}) /\ ~HasAny(test_content, TestBitOpLines)
              THEN AddIssue(r1, "Source uses bit fields but tests don't perform bit operations")
              ELSE r1
        r3 == IF HasAny(source_content, {SrcState}) /\ ~HasAny(test_content, TestTransitionLines)
              THEN AddIssue(r2, "Source has state machine but tests don't verify state transitions")
              ELSE r2
        r4 == IF HasAny(source_content, {SrcTmr}) /\ ~HasAny(test_content, TestVotingLines)
              THEN AddIssue(r3, "Source has TMR voting but tests don't cover voting scenarios")
              ELSE r3
        r5 == IF HasAny(source_content, {SrcWdt}) /\ ~HasAny(test_content, TestWatchdogLines)
              THEN AddIssue(r4, "Source has watchdog timer but tests don't verify feeding/timeout")
              ELSE r4
        r6 == IF HasAny(source_content, {SrcDma}) /\ ~HasAny(test_content, TestHardwareLines)
              THEN AddIssue(r5,
                     "Source uses DMA/interrupts but tests don't simulate hardware interactions")
              ELSE r5
        r7 == IF HasAny(source_content, {SrcVolatile}) /\ ~HasAny(test_content, TestRegisterLines)
              THEN AddIssue(r6,
                     "Source uses memory-mapped I/O but tests don't verify register access")
              ELSE r6
    IN  r7

\* a rating that wants a realistic file for Medium too
calculate_quality_rating_strict(result) ==
    LET issues == Len(result.issues)
    IN  IF issues = 0 /\ result.compiles /\ result.realistic THEN "High"
        ELSE IF issues <= 2 /\ result.compiles /\ result.realistic THEN "Medium"
        ELSE "Low"

calculate_quality_rating(result) ==
    LET issues == Len(result.issues)
    IN  IF issues = 0 /\ result.compiles /\ result.realistic THEN "High"
        ELSE IF issues <= 2 /\ result.compiles THEN "Medium"
        ELSE "Low"

\* the five checks validate_test_file runs, in order
NumChecks == 5

RunCheck(k, test_content, source, result) ==
    CASE k = 1 -> check_compilation_safety(test_content, source.functions,
                                           source.includes, result)
      [] k = 2 -> check_reality_tests(test_content, source.functions, result)
      [] k = 3 -> assess_test_quality(test_content, source.functions, result)
      [] k = 4 -> verify_logical_consistency(test_content, result)
      [] k = 5 -> check_embedded_features(test_content, source.content, result)

RECURSIVE RunChecks(_, _, _, _)
RunChecks(n, test_content, source, result) ==
    IF n = 0 THEN result
    ELSE RunCheck(n, test_content, source, RunChecks(n - 1, test_content, source, result))

TestFileName(source) ==
    CASE source.path = "src/sensor.c" -> "test_sensor.c"
      [] source.path = "src/util.c" -> "test_util.c"

\* a validation whose error path records the error and leaves the rating
\* and the flags as they are
validate_test_file_unrated(test_content, source, raisedAfter) ==
    LET validation_result == [file |-> TestFileName(source), compiles |-> TRUE,
                              realistic |-> TRUE, quality |-> "High", issues |-> <<>>]
        checked == RunChecks(raisedAfter, test_content, source, validation_result)
    IN  IF raisedAfter = NumChecks
        THEN [checked EXCEPT !.quality = calculate_quality_rating(checked)]
        ELSE AddIssue(checked, "Validation error: check failed")

\* validate_test_file; raisedAfter is the number of checks that completed
\* before something in the try block raised (NumChecks: nothing raised)
validate_test_file(test_content, source, raisedAfter) ==
    LET validation_result == [file |-> TestFileName(source), compiles |-> TRUE,
                              realistic |-> TRUE, quality |-> "High", issues |-> <<>>]
        checked == RunChecks(raisedAfter, test_content, source, validation_result)
    IN  IF raisedAfter = NumChecks
        THEN [checked EXCEPT !.quality = calculate_quality_rating(checked)]
        ELSE [AddIssue(checked, "Validation error: check failed")
                EXCEPT !.compiles = FALSE, !.quality = "Low"]

(***************************************************************************)
(* Context Builder: the feedback section of _build_targeted_prompt.  The   *)
(* section is the sequence of its lines.                                   *)
(***************************************************************************)
MaxFeedbackIssues == 5

Take(seq, n) == SubSeq(seq, 1, IF Len(seq) < n THEN Len(seq) ELSE n)

\* 'unreasonably high' in issue
IsHighIssue(issue) ==
    issue = "Temperature value 250.0 seems unreasonably high (valid range: -40C to 125C)"

\* an overflow entry that counts all issues, not those left out
OverflowEntry_total(n) == "- ... and " \o ToString(n + MaxFeedbackIssues) \o " more issues"

OverflowEntry(n) == "- ... and " \o ToString(n) \o " more issues"

\* a section that announces issues although there is no previous report
feedback_section_announces(validation_feedback) ==
    IF validation_feedback = <<>>
    THEN <<"PREVIOUS ATTEMPT FAILED WITH THESE SPECIFIC ISSUES - FIX THEM:">>
    ELSE LET issues == validation_feedback[1].issues
         IN  IF issues = <<>> THEN <<"NONE - Previous attempt was successful">>
             ELSE <<"PREVIOUS ATTEMPT FAILED WITH THESE SPECIFIC ISSUES - FIX THEM:">>
                  \o [i \in 1..Len(issues) |-> "- " \o issues[i]]

\* validation_feedback is the report of the previous attempt, <<>> for None
feedback_section(validation_feedback) ==
    IF validation_feedback = <<>> THEN <<"NONE - First generation attempt">>
    ELSE LET issues == validation_feedback[1].issues
             shown == Take(issues, MaxFeedbackIssues)
         IN  IF issues = <<>> THEN <<"NONE - Previous attempt was successful">>
             ELSE <<"PREVIOUS ATTEMPT FAILED WITH THESE SPECIFIC ISSUES - FIX THEM:">>
                  \o [i \in 1..Len(shown) |-> "- " \o shown[i]]
                  \o (IF Len(issues) > MaxFeedbackIssues
                      THEN <<OverflowEntry(Len(issues) - MaxFeedbackIssues)>>
                      ELSE <<>>)
                  \o (IF \E i \in 1..Len(issues) : IsHighIssue(issues[i])
                      THEN <<Blank,
                             "SPECIFIC FIX REQUIRED: Temperature values must be in range -40.0C to 125.0C. Check source code for exact valid ranges.">>
                      ELSE <<>>)

(***************************************************************************)
(* Generation backends.                                                    *)
(***************************************************************************)
AllModels ==
    <<"gemini-2.5-flash", "gemini-2.5-pro", "gemini-2.0-flash",
      "gemini-1.5-flash", "gemini-1.5-pro", "gemini-pro">>

\* the candidate list, cut to the bound of the model
models_to_try == SubSeq(AllModels, 1, NumModels)

max_retries == 3

\* the messages the backends fail with
ThrottleMsg == "429 resource exhausted"
OtherMsg == "500 internal error"
ErrorMsgs == {ThrottleMsg, OtherMsg}

\* a keyword of the rate-limit list occurs in str(e).lower()
is_rate_limit(error_str) == error_str = ThrottleMsg

\* wait_time of try number attempt (from 0)
wait_time(attempt) == (2 ^ attempt) + 1

\* the texts the backends answer with
RespGood == <<IncUnity, SetUpDef, TearDownDef, TMax>>
RespHot == <<FenceC, IncUnity, THot, Fence, Blank>>
Responses == {RespGood, RespHot}

(***************************************************************************)
(* State.                                                                  *)
(***************************************************************************)
VARIABLES
    args,                   \* the run configuration
    pc,                     \* position of the run
    fileIdx,                \* index in c_files of the file being processed
    attempt,                \* the Controller's attempt counter
    result,                 \* result of generate_tests_for_file, <<>> for none
    validation_result,      \* report of the current attempt, <<>> for none
    final_result,
    final_validation,
    successful_generations,
    validation_reports,
    regeneration_stats,
    disk,                   \* test file of each source file, <<>> if absent
    section,                \* feedback section of the current prompt
    dependency_map,         \* function name -> file that defines it
    analysis,               \* analysis of the file being generated, <<>> for none
    functions_that_need_stubs,
    model,                  \* the backend object requests are sent to
    current_model_name,     \* name of the sticky current backend
    retry,                  \* loop variable of the local tries
    last_error,
    original_model,
    fb,                     \* index in models_to_try of the fallback loop
    response,               \* text returned by the adapter call
    raised,                 \* error raised by the adapter call, <<>> if none
    callLog,                \* requests sent to backends in the current adapter call
    lastFailure,            \* the latest failure of a backend in this call
                            \* (of a request, or of a fallback constructor)
    sleeps,                 \* backoff delays of the current adapter call
    cycles,                 \* validations done for the current file
    lastIssues,             \* issue list of the latest validation of this file
    switched,               \* backend of the latest successful fallback; until
                            \* there is one, the backend of construction in a
                            \* run of main, "" for a generator on its own
    exit_status,            \* status the process exited with, <<>> while it runs
    saved_reports           \* the validation reports saved at the end of the run

ctl == <<fileIdx, attempt, result, validation_result, final_result, final_validation,
         successful_generations, validation_reports, regeneration_stats, disk,
         cycles, lastIssues>>
adp == <<model, current_model_name, retry, last_error, original_model, fb, response,
         raised, callLog, lastFailure, sleeps, switched>>
run == <<exit_status, saved_reports>>
gen == <<dependency_map, analysis, functions_that_need_stubs>>
vars == <<args, c_files, pc, section, gen, ctl, adp, run>>

\* cli.py 212-216: the option is any integer; the smallest one of the runs
MinM == -1

\* which backends of the candidate list can be constructed: at least one
\* (generator.py 109-110 raises otherwise, and no file is processed)
Constructible ==
    {c \in [1..Len(models_to_try) -> BOOLEAN] : \E i \in DOMAIN c : c[i]}

\* generator.py 97-110: the first candidate whose constructor does not raise
initialize_model(constructible) ==
    models_to_try[CHOOSE i \in DOMAIN constructible :
                     /\ constructible[i]
                     /\ \A j \in 1..(i - 1) : ~constructible[j]]

\* a test file an earlier run left in the output directory
EarlierTest == <<IncUnity, TMax>>

\* cli.py 318-338: the output directory at the start of the run; the test
\* files of an earlier run are still there (only compilation_report is
\* cleaned)
OutputDirectories == [1..NumFiles -> {<<>>, EarlierTest}]

\* a file that was opened for writing and never written
EmptyFile == <<Blank>>

quality_levels(q) ==
    CASE q \in {"low", "Low"} -> 0
      [] q \in {"medium", "Medium"} -> 1
      [] q \in {"high", "High"} -> 2
      [] OTHER -> 0

Init ==
    /\ args \in [regenerate_on_low_quality : BOOLEAN,
                 quality_threshold : {"low", "medium", "high"},
                 max_regeneration_attempts : MinM..MaxM]
    /\ c_files \in Listings
    /\ pc = "file"
    /\ fileIdx = 0
    /\ attempt = 0
    /\ result = <<>>
    /\ validation_result = <<>>
    /\ final_result = <<>>
    /\ final_validation = <<>>
    /\ successful_generations = 0
    /\ validation_reports = <<>>
    /\ regeneration_stats = [total_regenerations |-> 0, successful_regenerations |-> 0]
    /\ disk \in OutputDirectories
    /\ section = <<>>
    /\ dependency_map = build_dependency_map(RepositoryFiles)
    /\ analysis = <<>>
    /\ functions_that_need_stubs = <<>>
    /\ \E constructible \in Constructible :
         /\ model = initialize_model(constructible)
         /\ current_model_name = initialize_model(constructible)
         /\ switched = initialize_model(constructible)
    /\ retry = 0
    /\ last_error = <<>>
    /\ original_model = ""
    /\ fb = 0
    /\ response = <<>>
    /\ raised = <<>>
    /\ callLog = <<>>
    /\ lastFailure = <<>>
    /\ sleeps = <<>>
    /\ cycles = 0
    /\ lastIssues = <<>>
    /\ exit_status = <<>>
    /\ saved_reports = <<>>

(***************************************************************************)
(* Generation Service Adapter: _try_generate_with_fallback.                *)
(***************************************************************************)
\* what one backend call can do: answer with a text, or fail with a message
Outcomes ==
    [ok : {TRUE}, text : Responses, msg : {""}]
    \cup [ok : {FALSE}, text : {<<>>}, msg : ErrorMsgs]

LogEntry(m, out) == [model |-> m, ok |-> out.ok]

\* a loop that retries after any failure, throttling or not
AfterFailure_retry_any(error_str, n) ==
    IF n < max_retries - 1 THEN "sleep"
    ELSE IF is_rate_limit(error_str) THEN "fallback"
    ELSE "raised"

\* what the local-try loop does after a failure of try number n (from 0)
\* with message error_str (lines 131-142)
AfterFailure(error_str, n) ==
    IF is_rate_limit(error_str) /\ n < max_retries - 1 THEN "sleep"
    ELSE IF is_rate_limit(error_str) THEN "fallback"
    ELSE "raised"

\* the error the call raises when every fallback backend failed (line 166)
ExhaustedError(last) ==
    IF last = <<>>
    THEN <<[model |-> "", msg |-> "All models failed and no fallback available"]>>
    ELSE last

\* lines 117-142: one try on the current backend
CallCurrent ==
    /\ pc = "call"
    /\ \E out \in Outcomes :
         /\ callLog' = Append(callLog, LogEntry(model, out))
         /\ IF out.ok
            THEN /\ response' = out.text
                 /\ pc' = "returned"
                 /\ UNCHANGED <<last_error, original_model, fb, raised, lastFailure>>
            ELSE LET e == [model |-> model, msg |-> out.msg]
                     next == AfterFailure(out.msg, retry)
                 IN  /\ last_error' = <<e>>
                     /\ lastFailure' = <<e>>
                     /\ pc' = next
                     /\ raised' = IF next = "raised" THEN <<e>> ELSE raised
                     /\ original_model' =
                            IF next = "fallback" THEN current_model_name ELSE original_model
                     /\ fb' = IF next = "fallback" THEN 1 ELSE fb
                     /\ UNCHANGED response
    /\ UNCHANGED <<args, c_files, gen, run, section, ctl, model, current_model_name, retry, sleeps, switched>>

\* lines 132-135: the backoff sleep, then the next try
Backoff ==
    /\ pc = "sleep"
    /\ sleeps' = Append(sleeps, wait_time(retry))
    /\ retry' = retry + 1
    /\ pc' = "call"
    /\ UNCHANGED <<args, c_files, gen, run, section, ctl, model, current_model_name, last_error,
                   original_model, fb, response, raised, callLog, lastFailure, switched>>

\* line 147: the backend the fallback loop passes over
SkipsBackend(model_name, original) == model_name = original

\* a switch that records the name but keeps sending to the old backend
SwitchTo_name_only(model_name) ==
    /\ model' = model
    /\ current_model_name' = model_name
    /\ switched' = model_name

\* lines 156-158: the backend that answered becomes the current one
SwitchTo(model_name) ==
    /\ model' = model_name
    /\ current_model_name' = model_name
    /\ switched' = model_name

\* lines 147-148: the fallback loop skips the backend that just failed
FallbackSkip ==
    /\ pc = "fallback"
    /\ fb <= Len(models_to_try)
    /\ SkipsBackend(models_to_try[fb], original_model)
    /\ fb' = fb + 1
    /\ UNCHANGED <<args, c_files, gen, run, pc, section, ctl, model, current_model_name, retry, last_error,
                   original_model, response, raised, callLog, lastFailure, sleeps, switched>>

\* a fallback loop that a failure other than throttling ends
FallbackCall_raises ==
    /\ pc = "fallback"
    /\ fb <= Len(models_to_try)
    /\ ~SkipsBackend(models_to_try[fb], original_model)
    /\ \/ \E msg \in ErrorMsgs :
            LET e == [model |-> models_to_try[fb], msg |-> msg]
            IN  /\ fb' = fb + 1
                /\ lastFailure' = <<e>>
                /\ pc' = IF is_rate_limit(msg) THEN pc ELSE "raised"
                /\ raised' = IF is_rate_limit(msg) THEN raised ELSE <<e>>
                /\ UNCHANGED <<callLog, model, current_model_name, switched, response>>
       \/ \E out \in Outcomes :
            /\ callLog' = Append(callLog, LogEntry(models_to_try[fb], out))
            /\ IF out.ok
               THEN /\ SwitchTo(models_to_try[fb])
                    /\ response' = out.text
                    /\ pc' = "returned"
                    /\ UNCHANGED <<fb, lastFailure, raised>>
               ELSE LET e == [model |-> models_to_try[fb], msg |-> out.msg]
                    IN  /\ fb' = fb + 1
                        /\ lastFailure' = <<e>>
                        /\ pc' = IF is_rate_limit(out.msg) THEN pc ELSE "raised"
                        /\ raised' = IF is_rate_limit(out.msg) THEN raised ELSE <<e>>
                        /\ UNCHANGED <<model, current_model_name, switched, response>>
    /\ UNCHANGED <<args, c_files, gen, run, section, ctl, retry, last_error, original_model, sleeps>>

\* lines 150-163: one pass of the fallback loop on a backend that is not
\* skipped.  The constructor of line 152 is inside the try: when it raises,
\* no request is sent and the handler of 161-163 goes on to the next
\* candidate; otherwise the request of line 153 is sent, and its failure is
\* handled the same way
FallbackCall ==
    /\ pc = "fallback"
    /\ fb <= Len(models_to_try)
    /\ ~SkipsBackend(models_to_try[fb], original_model)
    /\ \/ \E msg \in ErrorMsgs :
            /\ fb' = fb + 1
            /\ lastFailure' = <<[model |-> models_to_try[fb], msg |-> msg]>>
            /\ UNCHANGED <<callLog, model, current_model_name, switched, response, pc>>
       \/ \E out \in Outcomes :
            /\ callLog' = Append(callLog, LogEntry(models_to_try[fb], out))
            /\ IF out.ok
               THEN /\ SwitchTo(models_to_try[fb])
                    /\ response' = out.text
                    /\ pc' = "returned"
                    /\ UNCHANGED <<fb, lastFailure>>
               ELSE /\ fb' = fb + 1
                    /\ lastFailure' = <<[model |-> models_to_try[fb], msg |-> out.msg]>>
                    /\ UNCHANGED <<model, current_model_name, switched, response, pc>>
    /\ UNCHANGED <<args, c_files, gen, run, section, ctl, retry, last_error, original_model, raised, sleeps>>

\* lines 165-166: every backend failed
FallbackExhausted ==
    /\ pc = "fallback"
    /\ fb > Len(models_to_try)
    /\ raised' = ExhaustedError(last_error)
    /\ pc' = "raised"
    /\ UNCHANGED <<args, c_files, gen, run, section, ctl, model, current_model_name, retry, last_error,
                   original_model, fb, response, callLog, lastFailure, sleeps, switched>>

(***************************************************************************)
(* Regeneration Controller: the per-file loop of main (cli.py 345-441),    *)
(* with generate_tests_for_file (generator.py 184-226).                    *)
(***************************************************************************)
\* a loop bound that allows one attempt too many
max_attempts_one_more(a) == a.max_regeneration_attempts + 2

\* cli.py 350
max_attempts(a) == a.max_regeneration_attempts + 1

\* cli.py 362: the feedback handed to generate_tests_for_file
feedback_argument(n, final) == IF n > 1 THEN final ELSE <<>>

\* cli.py 379-387
needs_regeneration(a, report, n) ==
    /\ a.regenerate_on_low_quality
    /\ quality_levels(report.quality) < quality_levels(a.quality_threshold)
    /\ n < max_attempts(a)

\* cli.py 427: final_result and final_result['success']
Succeeded(final) == final # <<>> /\ final[1].success

\* the locals of one file's processing: rebound by lines 350-353 and by the
\* loop body, and read by nothing once the file's final result is processed
FileLocalsDead ==
    /\ attempt' = 0
    /\ final_result' = <<>>
    /\ final_validation' = <<>>
    /\ result' = <<>>
    /\ validation_result' = <<>>
    /\ section' = <<>>
    /\ cycles' = 0
    /\ lastIssues' = <<>>

\* cli.py 345-353: the next file of c_files
NextFile ==
    /\ pc = "file"
    /\ fileIdx < NumFiles
    /\ fileIdx' = fileIdx + 1
    /\ FileLocalsDead
    /\ pc' = "while"
    /\ UNCHANGED <<args, c_files, gen, run, adp, successful_generations, validation_reports,
                   regeneration_stats, disk>>

\* cli.py 355-356
LoopTest ==
    /\ pc = "while"
    /\ IF attempt < max_attempts(args)
       THEN attempt' = attempt + 1 /\ pc' = "generate"
       ELSE attempt' = attempt /\ pc' = "final"
    /\ UNCHANGED <<args, c_files, gen, run, section, adp, fileIdx, result, validation_result, final_result,
                   final_validation, successful_generations, validation_reports,
                   regeneration_stats, disk, cycles, lastIssues>>

\* a context builder that writes the functions the file calls into the map,
\* as owned by the file
BuildPromptWith_registers(a) ==
    /\ pc = "generate"
    /\ analysis' = <<a>>
    /\ functions_that_need_stubs' = needs_stubs(a, dependency_map, c_files[fileIdx])
    /\ dependency_map' =
          [name \in DOMAIN dependency_map
                     \cup {a.called_functions[k] : k \in 1..Len(a.called_functions)} |->
              IF Contains(a.called_functions, name) THEN a.file_path
              ELSE dependency_map[name]]
    /\ section' = feedback_section(feedback_argument(attempt, final_validation))
    /\ pc' = "call"
    /\ UNCHANGED <<args, c_files, run, ctl, adp>>

\* generator.py 189 to 209 on the analysis a the analyzer returned for the
\* file: the needs-stub list, the prompt, and the start of the adapter call.
\* The owner of a called function is compared with the file_path argument of
\* generate_tests_for_file (line 199), the path of c_files being processed
\* (cli.py 345, 359)
BuildPromptWith(a) ==
    /\ pc = "generate"
    /\ analysis' = <<a>>
    /\ functions_that_need_stubs' = needs_stubs(a, dependency_map, c_files[fileIdx])
    /\ section' = feedback_section(feedback_argument(attempt, final_validation))
    /\ pc' = "call"
    /\ UNCHANGED <<args, c_files, dependency_map, run, ctl, adp>>

\* generator.py 186-209: analysis, prompt, and the start of the adapter call
BuildPrompt == BuildPromptWith(analyze_file_dependencies(SourceFile(fileIdx)))

\* an analysis failure that no handler of the file loop catches: the fatal
\* error handler ends the run
AnalysisFails_uncaught ==
    /\ pc = "generate"
    /\ pc' = "done"
    /\ exit_status' = <<1>>
    /\ UNCHANGED <<args, c_files, gen, saved_reports, section, ctl, adp>>

\* generator.py 186-205 raising (source unreadable): cli.py 422-424
AnalysisFails ==
    /\ pc = "generate"
    /\ pc' = "final"
    /\ UNCHANGED <<args, c_files, gen, run, section, ctl, adp>>

\* the locals of generate_tests_for_file are gone once it returns
GenerateReturns ==
    /\ analysis' = <<>>
    /\ functions_that_need_stubs' = <<>>

\* the locals of _try_generate_with_fallback are gone once its caller goes on
AdapterLocalsDead ==
    /\ retry' = 0
    /\ last_error' = <<>>
    /\ original_model' = ""
    /\ fb' = 0
    /\ response' = <<>>
    /\ raised' = <<>>
    /\ callLog' = <<>>
    /\ lastFailure' = <<>>
    /\ sleeps' = <<>>

\* the adapter call is over: its locals are gone, the backend stays
AdapterReturns ==
    /\ AdapterLocalsDead
    /\ UNCHANGED <<model, current_model_name, switched>>

\* generator.py 210-223: strip, normalize, write the test file
PostProcess ==
    /\ pc = "returned"
    /\ disk' = [disk EXCEPT ![fileIdx] =
                  post_process_test_code(Strip(response), SourceFile(fileIdx).includes)]
    /\ result' = <<[success |-> TRUE, test_file |-> TestFileName(SourceFile(fileIdx)),
                    error |-> ""]>>
    /\ pc' = "validate"
    /\ AdapterReturns
    /\ GenerateReturns
    /\ UNCHANGED <<args, c_files, dependency_map, run, section, fileIdx, attempt, validation_result, final_result,
                   final_validation, successful_generations, validation_reports,
                   regeneration_stats, cycles, lastIssues>>

\* generator.py 225-226 after a fault of lines 210-221, then cli.py 367-369;
\* when the fault is in the write of line 221, line 220 has already created
\* or truncated the test file
PostProcessFails ==
    /\ pc = "returned"
    /\ result' = <<[success |-> FALSE, test_file |-> "", error |-> "write failed"]>>
    /\ \E opened \in BOOLEAN :
         disk' = IF opened THEN [disk EXCEPT ![fileIdx] = EmptyFile] ELSE disk
    /\ pc' = "final"
    /\ AdapterReturns
    /\ GenerateReturns
    /\ UNCHANGED <<args, c_files, dependency_map, run, section, fileIdx, attempt, validation_result, final_result,
                   final_validation, successful_generations, validation_reports,
                   regeneration_stats, cycles, lastIssues>>

\* generator.py 225-226 after the adapter raised, then cli.py 367-369
GenerationFailed ==
    /\ pc = "raised"
    /\ result' = <<[success |-> FALSE, test_file |-> "", error |-> raised[1].msg]>>
    /\ pc' = "final"
    /\ AdapterReturns
    /\ GenerateReturns
    /\ UNCHANGED <<args, c_files, dependency_map, run, section, fileIdx, attempt, validation_result, final_result,
                   final_validation, successful_generations, validation_reports,
                   regeneration_stats, disk, cycles, lastIssues>>

\* where a validation may raise: reading the files, or nowhere
FaultPoints == {0, NumChecks}

\* cli.py 374, a check raising at one of the given points
ValidateWith(points) ==
    /\ pc = "validate"
    /\ \E raisedAfter \in points :
         validation_result' =
            <<validate_test_file(disk[fileIdx], SourceFile(fileIdx), raisedAfter)>>
    /\ cycles' = cycles + 1
    /\ lastIssues' = validation_result'[1].issues
    /\ pc' = "decide"
    /\ UNCHANGED <<args, c_files, gen, run, section, adp, fileIdx, attempt, result, final_result,
                   final_validation, successful_generations, validation_reports,
                   regeneration_stats, disk>>

Validate == ValidateWith(FaultPoints)

\* cli.py 378-420
Decide ==
    /\ pc = "decide"
    /\ final_result' = result
    /\ final_validation' = validation_result
    /\ IF needs_regeneration(args, validation_result[1], attempt)
       THEN /\ regeneration_stats' =
                  [regeneration_stats EXCEPT !.total_regenerations = @ + 1]
            /\ disk' = [disk EXCEPT ![fileIdx] = <<>>]
            /\ pc' = "while"
       ELSE /\ pc' = "final"
            /\ UNCHANGED <<regeneration_stats, disk>>
    /\ UNCHANGED <<args, c_files, gen, run, section, adp, fileIdx, attempt, result, validation_result,
                   successful_generations, validation_reports, cycles, lastIssues>>

\* cli.py 406-416 with os.remove raising, then cli.py 422-424: the loop ends
\* with the regeneration counted and the test file still there
RemoveFails ==
    /\ pc = "decide"
    /\ needs_regeneration(args, validation_result[1], attempt)
    /\ final_result' = result
    /\ final_validation' = validation_result
    /\ regeneration_stats' = [regeneration_stats EXCEPT !.total_regenerations = @ + 1]
    /\ pc' = "final"
    /\ UNCHANGED <<args, c_files, gen, run, section, adp, fileIdx, attempt, result, validation_result,
                   successful_generations, validation_reports, disk, cycles, lastIssues>>

\* the file was accepted after the third attempt or a later one only
successful_regeneration_late(n) == n > 2

\* every accepted result counts as a successful regeneration
successful_regeneration_always(n) == n > 0

\* cli.py 431-433: the accepted result comes from a regeneration
successful_regeneration(n) == n > 1

\* cli.py 426-437
ProcessFinal ==
    /\ pc = "final"
    /\ IF Succeeded(final_result)
       THEN /\ successful_generations' = successful_generations + 1
            /\ validation_reports' = Append(validation_reports, final_validation[1])
            /\ regeneration_stats' =
                  IF successful_regeneration(attempt)
                  THEN [regeneration_stats EXCEPT !.successful_regenerations = @ + 1]
                  ELSE regeneration_stats
       ELSE UNCHANGED <<successful_generations, validation_reports, regeneration_stats>>
    /\ FileLocalsDead
    /\ pc' = "file"
    /\ UNCHANGED <<args, c_files, gen, run, adp, fileIdx, disk>>

\* cli.py 473-480: the files of the reports below the threshold
low_quality_tests(a, reports) ==
    SelectSeq(reports, LAMBDA report :
        quality_levels(report.quality) < quality_levels(a.quality_threshold))

\* a status that depends on the number of generated files only
ExitStatus_count_only(a, reports, generated) ==
    IF generated = 0 THEN 1
    ELSE IF generated < NumFiles THEN 1
    ELSE 0

\* cli.py 482-506: the status the run ends with
ExitStatus(a, reports, generated) ==
    IF low_quality_tests(a, reports) # <<>> /\ ~a.regenerate_on_low_quality THEN 1
    ELSE IF generated = 0 THEN 1
    ELSE IF generated < NumFiles THEN 1
    ELSE 0

\* cli.py 443-449: the loop over c_files is over; the reports are saved one
\* by one, in the order they were recorded
SaveReport ==
    /\ pc = "file"
    /\ fileIdx = NumFiles
    /\ Len(saved_reports) < Len(validation_reports)
    /\ saved_reports' = Append(saved_reports, validation_reports[Len(saved_reports) + 1])
    /\ UNCHANGED <<args, c_files, pc, gen, section, ctl, adp, exit_status>>

\* cli.py 449 raising (the report file cannot be written): the fatal error
\* handler of cli.py 511-516 ends the run
SaveFails ==
    /\ pc = "file"
    /\ fileIdx = NumFiles
    /\ Len(saved_reports) < Len(validation_reports)
    /\ exit_status' = <<1>>
    /\ pc' = "done"
    /\ UNCHANGED <<args, c_files, gen, section, ctl, adp, saved_reports>>

\* cli.py 451-506: every report is saved; the summary, and the run ends
Finish ==
    /\ pc = "file"
    /\ fileIdx = NumFiles
    /\ Len(saved_reports) = Len(validation_reports)
    /\ exit_status' = <<ExitStatus(args, validation_reports, successful_generations)>>
    /\ pc' = "done"
    /\ UNCHANGED <<args, c_files, gen, section, ctl, adp, saved_reports>>

\* cli.py 508-510: a KeyboardInterrupt, raised in whatever statement of the
\* run is executing (no handler of generator.py or of the file loop catches
\* it: they catch Exception), ends the process with the given status
InterruptWith(status) ==
    /\ pc \notin {"done", "interrupted"}
    /\ pc' = "interrupted"
    /\ exit_status' = <<status>>
    /\ FileLocalsDead
    /\ AdapterReturns
    /\ GenerateReturns
    /\ UNCHANGED <<args, c_files, dependency_map, fileIdx, successful_generations, validation_reports,
                   regeneration_stats, disk, saved_reports>>

Interrupt == InterruptWith(1)

\* cli.py 508-510, the interrupt raised inside cli.py 427-433: after line 428
\* counted the file, before or after line 429 recorded its report
InterruptFinal ==
    /\ pc = "final"
    /\ Succeeded(final_result)
    /\ successful_generations' = successful_generations + 1
    /\ \E recorded \in BOOLEAN :
         validation_reports' = IF recorded
                               THEN Append(validation_reports, final_validation[1])
                               ELSE validation_reports
    /\ pc' = "interrupted"
    /\ exit_status' = <<1>>
    /\ FileLocalsDead
    /\ AdapterReturns
    /\ GenerateReturns
    /\ UNCHANGED <<args, c_files, dependency_map, fileIdx, regeneration_stats, disk, saved_reports>>

\* cli.py 508-510, the interrupt raised inside cli.py 411-416: after line 413
\* counted the regeneration, before line 416 removed the test file
InterruptDecide ==
    /\ pc = "decide"
    /\ needs_regeneration(args, validation_result[1], attempt)
    /\ regeneration_stats' = [regeneration_stats EXCEPT !.total_regenerations = @ + 1]
    /\ pc' = "interrupted"
    /\ exit_status' = <<1>>
    /\ FileLocalsDead
    /\ AdapterReturns
    /\ GenerateReturns
    /\ UNCHANGED <<args, c_files, dependency_map, fileIdx, successful_generations, validation_reports,
                   disk, saved_reports>>

\* cli.py 508-510, the interrupt raised inside generator.py 220-221: the test
\* file is opened and not written
InterruptWrite ==
    /\ pc = "returned"
    /\ disk' = [disk EXCEPT ![fileIdx] = EmptyFile]
    /\ pc' = "interrupted"
    /\ exit_status' = <<1>>
    /\ FileLocalsDead
    /\ AdapterReturns
    /\ GenerateReturns
    /\ UNCHANGED <<args, c_files, dependency_map, fileIdx, successful_generations, validation_reports,
                   regeneration_stats, saved_reports>>

\* cli.py 508-510, the interrupt raised between generator.py 156 and 157: the
\* backend object is the fallback one, its name is not recorded yet
InterruptSwitch ==
    /\ pc = "fallback"
    /\ fb <= Len(models_to_try)
    /\ ~SkipsBackend(models_to_try[fb], original_model)
    /\ model' = models_to_try[fb]
    /\ pc' = "interrupted"
    /\ exit_status' = <<1>>
    /\ FileLocalsDead
    /\ AdapterLocalsDead
    /\ GenerateReturns
    /\ UNCHANGED <<args, c_files, dependency_map, fileIdx, successful_generations, validation_reports,
                   regeneration_stats, disk, saved_reports, current_model_name, switched>>

\* the steps of a run that nothing interrupts
NextRun ==
    \/ NextFile
    \/ LoopTest
    \/ BuildPrompt
    \/ AnalysisFails
    \/ CallCurrent
    \/ Backoff
    \/ FallbackSkip
    \/ FallbackCall
    \/ FallbackExhausted
    \/ PostProcess
    \/ PostProcessFails
    \/ GenerationFailed
    \/ Validate
    \/ Decide
    \/ RemoveFails
    \/ ProcessFinal
    \/ SaveReport
    \/ SaveFails
    \/ Finish

Next ==
    \/ NextRun
    \/ Interrupt
    \/ InterruptFinal
    \/ InterruptDecide
    \/ InterruptWrite
    \/ InterruptSwitch

Spec == Init /\ [][Next]_vars

(***************************************************************************)
(* The Generation Service Adapter on its own: a generator that is called   *)
(* through generate_embedded_tests (generator.py 591-625), the other       *)
(* public method that calls _try_generate_with_fallback. main does not     *)
(* call it; each call of it is one adapter call, on the backend the calls  *)
(* before left. The generator starts on the first candidate backend that   *)
(* could be constructed. A KeyboardInterrupt is not caught by the method   *)
(* (its handler catches Exception): the caller gets it, and may call the   *)
(* generator again.                                                        *)
(***************************************************************************)
InitA ==
    /\ args = [regenerate_on_low_quality |-> FALSE, quality_threshold |-> "medium",
               max_regeneration_attempts |-> 2]
    /\ c_files \in Listings
    /\ pc = "embedded"
    /\ fileIdx = 0
    /\ attempt = 0
    /\ result = <<>>
    /\ validation_result = <<>>
    /\ final_result = <<>>
    /\ final_validation = <<>>
    /\ successful_generations = 0
    /\ validation_reports = <<>>
    /\ regeneration_stats = [total_regenerations |-> 0, successful_regenerations |-> 0]
    /\ disk \in OutputDirectories
    /\ section = <<>>
    /\ dependency_map = build_dependency_map(RepositoryFiles)
    /\ analysis = <<>>
    /\ functions_that_need_stubs = <<>>
    /\ \E constructible \in Constructible :
         /\ model = initialize_model(constructible)
         /\ current_model_name = initialize_model(constructible)
    /\ retry = 0
    /\ last_error = <<>>
    /\ original_model = ""
    /\ fb = 0
    /\ response = <<>>
    /\ raised = <<>>
    /\ callLog = <<>>
    /\ lastFailure = <<>>
    /\ sleeps = <<>>
    /\ cycles = 0
    /\ lastIssues = <<>>
    /\ switched = ""
    /\ exit_status = <<>>
    /\ saved_reports = <<>>

\* generator.py 605-613: the prompt is built and the adapter is called, on a
\* new generator, after a call that returned, or after a call that an
\* interrupt ended
EmbeddedCall ==
    /\ pc \in {"embedded", "interrupted"}
    /\ pc' = "call"
    /\ UNCHANGED <<args, c_files, gen, run, section, ctl, adp>>

\* generator.py 614-625: the adapter returned a response, and line 620
\* raises (the generator has no validator attribute), or the adapter
\* raised; the handler of 623 returns "" in both cases, and no file is written
EmbeddedReturns ==
    /\ pc \in {"returned", "raised"}
    /\ pc' = "embedded"
    /\ AdapterReturns
    /\ UNCHANGED <<args, c_files, gen, run, section, ctl>>

\* a KeyboardInterrupt raised inside generator.py 612-621 leaves the method
\* (the handler of 623 catches Exception only): the locals of the adapter
\* call are gone and the generator stays as it is.  Raised between lines 156
\* and 157, after the request to a fallback backend was answered, it leaves
\* self.model on that backend and current_model_name on the one before
EmbeddedInterrupted ==
    /\ pc \in {"call", "sleep", "fallback", "returned", "raised"}
    /\ \/ model' = model
       \/ /\ pc = "fallback"
          /\ fb <= Len(models_to_try)
          /\ ~SkipsBackend(models_to_try[fb], original_model)
          /\ model' = models_to_try[fb]
    /\ pc' = "interrupted"
    /\ AdapterLocalsDead
    /\ UNCHANGED <<args, c_files, gen, run, section, ctl, current_model_name, switched>>

NextA ==
    \/ EmbeddedCall
    \/ CallCurrent
    \/ Backoff
    \/ FallbackSkip
    \/ FallbackCall
    \/ FallbackExhausted
    \/ EmbeddedReturns
    \/ EmbeddedInterrupted

SpecA == InitA /\ [][NextA]_vars

(***************************************************************************)
(* The Static Validator on its own: validate_test_file applied to every    *)
(* text of at most MaxTextLen lines, for each source file.                 *)
(***************************************************************************)
MaxTextLen == 2

LineAlphabet ==
    {FenceC, Fence, IncUnity, IncFake, IncSensor, SetUpDef, TearDownDef, TRead,
     TReadWithin, TMax, TInit, THot, MainCall, AbsZero, TZero, StubVar, Blank,
     MainOpen, UnityBegin, UnityEnd, MainClose, RunTest("test_read"),
     RunTest("test_temperature_max"), TempOver, TempNominal}

Texts == UNION {[1..n -> LineAlphabet] : n \in 1..MaxTextLen}

InitV ==
    /\ args = [regenerate_on_low_quality |-> FALSE, quality_threshold |-> "high",
               max_regeneration_attempts |-> 0]
    /\ c_files \in Listings
    /\ pc = "validate"
    /\ fileIdx = 1
    /\ attempt = 1
    /\ result = <<[success |-> TRUE, test_file |-> TestFileName(SourceFile(fileIdx)),
                   error |-> ""]>>
    /\ validation_result = <<>>
    /\ final_result = <<>>
    /\ final_validation = <<>>
    /\ successful_generations = 0
    /\ validation_reports = <<>>
    /\ regeneration_stats = [total_regenerations |-> 0, successful_regenerations |-> 0]
    /\ \E text \in Texts :
         disk = [i \in 1..NumFiles |-> IF i = fileIdx THEN text ELSE <<>>]
    /\ section = feedback_section(<<>>)
    /\ dependency_map = build_dependency_map(RepositoryFiles)
    /\ analysis = <<>>
    /\ functions_that_need_stubs = <<>>
    /\ model = models_to_try[1]
    /\ current_model_name = models_to_try[1]
    /\ retry = 0
    /\ last_error = <<>>
    /\ original_model = ""
    /\ fb = 0
    /\ response = <<>>
    /\ raised = <<>>
    /\ callLog = <<>>
    /\ lastFailure = <<>>
    /\ sleeps = <<>>
    /\ cycles = 0
    /\ lastIssues = <<>>
    /\ switched = models_to_try[1]
    /\ exit_status = <<>>
    /\ saved_reports = <<>>

\* the validation, a check raising at any point or at none
ValidateAnywhere == ValidateWith(0..NumChecks)

SpecV == InitV /\ [][ValidateAnywhere]_vars

(***************************************************************************)
(* The write of the test file on every response of up to MaxTextLen lines. *)
(***************************************************************************)
InitN ==
    /\ args = [regenerate_on_low_quality |-> FALSE, quality_threshold |-> "high",
               max_regeneration_attempts |-> 0]
    /\ c_files \in Listings
    /\ pc = "returned"
    /\ fileIdx = 1
    /\ attempt = 1
    /\ result = <<>>
    /\ validation_result = <<>>
    /\ final_result = <<>>
    /\ final_validation = <<>>
    /\ successful_generations = 0
    /\ validation_reports = <<>>
    /\ regeneration_stats = [total_regenerations |-> 0, successful_regenerations |-> 0]
    /\ disk = [i \in 1..NumFiles |-> <<>>]
    /\ section = feedback_section(<<>>)
    /\ dependency_map = build_dependency_map(RepositoryFiles)
    /\ analysis = <<analyze_file_dependencies(SourceFile(fileIdx))>>
    /\ functions_that_need_stubs =
          needs_stubs(analysis[1], dependency_map, c_files[fileIdx])
    /\ model = models_to_try[1]
    /\ current_model_name = models_to_try[1]
    /\ retry = 0
    /\ last_error = <<>>
    /\ original_model = ""
    /\ fb = 0
    /\ response \in Texts
    /\ raised = <<>>
    /\ callLog = <<[model |-> models_to_try[1], ok |-> TRUE]>>
    /\ lastFailure = <<>>
    /\ sleeps = <<>>
    /\ cycles = 0
    /\ lastIssues = <<>>
    /\ switched = models_to_try[1]
    /\ exit_status = <<>>
    /\ saved_reports = <<>>

SpecN == InitN /\ [][PostProcess]_vars

(***************************************************************************)
(* The needs-stub list on every analysis and every dependency map over a   *)
(* few names and files.                                                    *)
(***************************************************************************)
MaxCalled == 2

FunctionNames == {"add", "wdt_feed", "printf"}
FilePaths == {"src/sensor.c", "src/util.c"}

\* the analyses of a file: what it defines and what it calls
Analyses ==
    LET lists == UNION {[1..n -> FunctionNames] : n \in 0..MaxCalled}
    IN  {[file_path |-> path,
          functions |-> [k \in 1..Len(defs) |-> [name |-> defs[k], return_type |-> "int"]],
          called_functions |-> calls]
         : path \in FilePaths, defs \in lists, calls \in lists}

\* the dependency maps: some of the names, each given to a file
DependencyMaps == UNION {[names -> FilePaths] : names \in SUBSET FunctionNames}

InitS ==
    /\ args = [regenerate_on_low_quality |-> FALSE, quality_threshold |-> "high",
               max_regeneration_attempts |-> 0]
    /\ c_files \in Listings
    /\ pc = "generate"
    /\ fileIdx = 1
    /\ attempt = 1
    /\ result = <<>>
    /\ validation_result = <<>>
    /\ final_result = <<>>
    /\ final_validation = <<>>
    /\ successful_generations = 0
    /\ validation_reports = <<>>
    /\ regeneration_stats = [total_regenerations |-> 0, successful_regenerations |-> 0]
    /\ disk = [i \in 1..NumFiles |-> <<>>]
    /\ section = <<>>
    /\ dependency_map \in DependencyMaps
    /\ analysis = <<>>
    /\ functions_that_need_stubs = <<>>
    /\ model = models_to_try[1]
    /\ current_model_name = models_to_try[1]
    /\ retry = 0
    /\ last_error = <<>>
    /\ original_model = ""
    /\ fb = 0
    /\ response = <<>>
    /\ raised = <<>>
    /\ callLog = <<>>
    /\ lastFailure = <<>>
    /\ sleeps = <<>>
    /\ cycles = 0
    /\ lastIssues = <<>>
    /\ switched = models_to_try[1]
    /\ exit_status = <<>>
    /\ saved_reports = <<>>

\* the prompt is built for the file being processed, whatever the analyzer
\* returned for it (the path its answer carries is not read by line 199)
BuildPromptAnywhere == \E a \in Analyses : BuildPromptWith(a)

SpecS == InitS /\ [][BuildPromptAnywhere]_vars

(***************************************************************************)
(* Properties of the Regeneration Controller.                              *)
(***************************************************************************)
\* C1, as stated: with regeneration enabled, a file sees at most M
\* generate->validate cycles, M the configured maximum of regeneration
\* attempts.
C1_AtMostM ==
    (args.regenerate_on_low_quality /\ args.max_regeneration_attempts >= 0) =>
        cycles <= args.max_regeneration_attempts

\* C1, amended: a file sees at most M + 1 generate->validate cycles (the
\* initial generation and at most M regenerations), whatever the reports are.
C1_AtMostMPlusOne ==
    args.max_regeneration_attempts >= 0 =>
        /\ cycles <= args.max_regeneration_attempts + 1
        /\ attempt <= args.max_regeneration_attempts + 1

\* every one of the M + 1 cycles is used: regeneration on, threshold high,
\* the last report still Low
C1_Witness ==
    /\ pc = "final"
    /\ args.regenerate_on_low_quality
    /\ args.quality_threshold = "high"
    /\ args.max_regeneration_attempts = 2
    /\ cycles = 3
    /\ final_validation # <<>>
    /\ final_validation[1].quality = "Low"

\* the error texts a failed adapter call leaves in the result
AdapterErrorTexts == ErrorMsgs \cup {"All models failed and no fallback available"}

\* the loop of the file has ended on a terminal failure of the adapter call
AdapterFailedTerminally ==
    /\ pc = "final"
    /\ result # <<>>
    /\ ~result[1].success
    /\ result[1].error \in AdapterErrorTexts

\* what a step of the run other than an interrupt does, for C2_TerminalFailureMarksFailed
C2_Step ==
    AdapterFailedTerminally =>
      /\ pc' = "file"
      /\ successful_generations' = successful_generations
      /\ validation_reports' = validation_reports
      /\ regeneration_stats'.successful_regenerations =
             regeneration_stats.successful_regenerations

\* C2: when the adapter call of any attempt fails terminally, the file ends
\* failed: no further attempt, not counted in successful generations, no
\* report recorded, successful_regenerations not incremented.
C2_TerminalFailureMarksFailed == [][pc' # "interrupted" => C2_Step]_vars

\* the tier order Low < Medium < High
TierRank(tier) == CASE tier = "Low" -> 0 [] tier = "Medium" -> 1 [] tier = "High" -> 2
ThresholdRank(t) == CASE t = "low" -> 0 [] t = "medium" -> 1 [] t = "high" -> 2

\* the file is accepted after a validation: regeneration is off, or the tier
\* reaches the threshold, or M regenerations have been made
MustAccept ==
    \/ ~args.regenerate_on_low_quality
    \/ TierRank(validation_result[1].quality) >= ThresholdRank(args.quality_threshold)
    \/ attempt - 1 = args.max_regeneration_attempts

\* what a step of the run other than an interrupt does, for C3_DecidingStep
C3_Step ==
    /\ pc = "decide" =>
         IF MustAccept
         THEN /\ pc' = "final"
              /\ final_result' = result
              /\ final_validation' = validation_result
              /\ disk' = disk
              /\ attempt' = attempt
         ELSE /\ pc' = "while"
              /\ disk'[fileIdx] = <<>>
              /\ regeneration_stats'.total_regenerations =
                     regeneration_stats.total_regenerations + 1
    /\ (pc = "while" /\ attempt >= 1) =>
         (attempt' = attempt + 1 /\ pc' = "generate")

\* C3: after each validation the file is accepted (the loop ends, artifact
\* and report are kept as final) exactly when the tier reaches the threshold
\* or the count of regenerations has reached the maximum, and always when
\* regeneration is off; otherwise the artifact is discarded, the attempt
\* counter goes up by one and a new generation begins.
C3_DecidingStep == [][pc' # "interrupted" => C3_Step]_vars

\* the lines of a feedback section that are no entries of its list
FeedbackFrame ==
    {"NONE - First generation attempt",
     "NONE - Previous attempt was successful",
     "PREVIOUS ATTEMPT FAILED WITH THESE SPECIFIC ISSUES - FIX THEM:",
     Blank,
     "SPECIFIC FIX REQUIRED: Temperature values must be in range -40.0C to 125.0C. Check source code for exact valid ranges."}

\* the entries a feedback section must list for the issue list issues
ExpectedEntries(issues) ==
    LET k == Len(issues)
        shown == IF k < 5 THEN k ELSE 5
    IN  [i \in 1..shown |-> "- " \o issues[i]]
        \o (IF k > 5 THEN <<"- ... and " \o ToString(k - 5) \o " more issues">> ELSE <<>>)

\* C4: from the second attempt of a file on, the feedback section of the
\* attempt's prompt lists exactly the first min(5, k) issues of the previous
\* attempt's report, in order and verbatim, then an overflow entry with the
\* count k - 5 exactly when k > 5, and nothing of any older attempt.
C4_FeedbackFidelity ==
    (attempt > 1 /\ pc \in {"call", "sleep", "fallback", "returned", "raised", "validate"}) =>
        SelectSeq(section, LAMBDA line : line \notin FeedbackFrame)
            = ExpectedEntries(lastIssues)

\* the third attempt of a file, the second having left more than five issues
C4_Witness ==
    /\ pc = "call"
    /\ attempt = 3
    /\ Len(lastIssues) > 5
    /\ Len(section) >= 7

(***************************************************************************)
(* Properties of the Static Validator.                                     *)
(***************************************************************************)
\* C5: in every report of validate_test_file, the one returned after a check
\* raised included, the tier is High iff there is no issue and the file
\* compiles and is realistic; otherwise Medium iff there are at most two
\* issues and it compiles; otherwise Low.
C5_TierRule ==
    validation_result # <<>> =>
        LET r == validation_result[1]
            k == Len(r.issues)
        IN  /\ r.quality = (IF k = 0 /\ r.compiles /\ r.realistic THEN "High"
                            ELSE IF k <= 2 /\ r.compiles THEN "Medium"
                            ELSE "Low")
            /\ (r.quality = "High") <=> (r.issues = <<>> /\ r.compiles /\ r.realistic)

\* a report returned after a check raised, earlier checks having found an issue
C5_Witness ==
    /\ validation_result # <<>>
    /\ Len(validation_result[1].issues) = 2
    /\ validation_result[1].issues[2] = "Validation error: check failed"
    /\ validation_result[1].realistic
    /\ validation_result[1].quality = "Low"

(***************************************************************************)
(* Properties of the Generation Service Adapter.                           *)
(***************************************************************************)
\* what a step of the run other than an interrupt does, for C6_NonThrottlingRaisedAtOnce
C6_Step ==
    /\ (pc = "call" /\ pc' # "returned" /\ lastFailure'[1].msg = OtherMsg) =>
         /\ pc' = "raised"
         /\ raised' = lastFailure'
         /\ raised'[1].model = model
         /\ sleeps' = sleeps
         /\ fb' = 0
         /\ model' = model
         /\ current_model_name' = current_model_name
         /\ \A i \in 1..Len(callLog') : callLog'[i].model = model
    /\ pc = "raised" =>
         /\ pc' \notin {"call", "sleep", "fallback"}
         /\ callLog' = <<>>
         /\ sleeps' = <<>>
         /\ model' = model
         /\ current_model_name' = current_model_name

\* C6: a failure of the current backend (the one the requests of the call
\* are sent to) that is no throttling is raised to the caller at once, on
\* whatever try it happens: no further try on the backend, no backoff sleep,
\* no call of a fallback backend, and the current backend, object and name,
\* stays what it was.
C6_NonThrottlingRaisedAtOnce == [][pc' # "interrupted" => C6_Step]_vars

\* a failure that is no throttling on the third try, after two throttled tries
C6_Witness ==
    /\ pc = "raised"
    /\ raised # <<>>
    /\ raised[1].msg = OtherMsg
    /\ Len(callLog) = 3
    /\ Len(sleeps) = 2
    /\ fb = 0

\* the backends the fallback of this call goes through, in list order
FallbackOrder == SelectSeq(models_to_try, LAMBDA m : m # original_model)

\* the calls of this call's fallback
FallbackCalls == SubSeq(callLog, max_retries + 1, Len(callLog))

\* what a step of the run other than an interrupt does, for C7_FallbackInOrder
C7_Step ==
    /\ (pc = "call" /\ retry = max_retries - 1 /\ pc' # "returned"
        /\ lastFailure'[1].msg = ThrottleMsg) =>
         (pc' = "fallback" /\ original_model' = current_model_name)
    /\ (pc' = "fallback" \/ (pc' \in {"returned", "raised"} /\ fb' >= 1)) =>
         /\ Len(callLog') >= max_retries
         /\ \A i \in 1..max_retries :
              callLog'[i].model = original_model' /\ ~callLog'[i].ok
         /\ Len(FallbackCalls') <= Len(FallbackOrder')
         /\ \A i \in 1..Len(FallbackCalls') :
              /\ FallbackCalls'[i].model = FallbackOrder'[i]
              /\ FallbackCalls'[i].ok <=> (pc' = "returned" /\ i = Len(FallbackCalls'))
         /\ pc' = "returned" =>
              /\ FallbackCalls' # <<>>
              /\ current_model_name' = FallbackCalls'[Len(FallbackCalls')].model
              /\ model' = current_model_name'
              /\ response' \in Responses
         /\ pc' = "raised" => Len(FallbackCalls') = Len(FallbackOrder')

\* C7: when the current backend throttles on try R, after throttling on all
\* tries before, the fallback starts: the other backends are called in list
\* order, exactly once each, up to the first that answers; that backend
\* becomes the current one and its text is returned; none after it is
\* called.
C7_FallbackInOrder == [][pc' # "interrupted" => C7_Step]_vars

\* what a step of the run other than an interrupt does, for C8_Stickiness
C8_Step ==
    /\ (current_model_name' # current_model_name \/ model' # model) =>
         /\ pc = "fallback"
         /\ pc' = "returned"
         /\ Len(callLog) >= max_retries
         /\ \A i \in 1..max_retries : callLog[i].model = model /\ ~callLog[i].ok
         /\ \A i \in (max_retries + 1)..Len(callLog) : ~callLog[i].ok
         /\ callLog'[Len(callLog')].ok
         /\ callLog'[Len(callLog')].model = models_to_try[fb]
         /\ current_model_name' = models_to_try[fb]
         /\ current_model_name' # current_model_name
         /\ model' = current_model_name'
         /\ switched' = current_model_name'
    /\ (callLog = <<>> /\ callLog' # <<>>) =>
         /\ callLog'[1].model = model
         /\ (switched # "" /\ model = current_model_name) => callLog'[1].model = switched
         /\ model' = model
    /\ current_model_name' = current_model_name => switched' = switched
    /\ switched # "" => switched = current_model_name

\* the backend the requests are sent to changes in the fallback of a call
\* only, after it throttled on all R tries of that call; this holds for the
\* step of an interrupt too
C8_Kept ==
    model' # model =>
        /\ pc = "fallback"
        /\ Len(callLog) >= max_retries
        /\ \A i \in 1..max_retries : callLog[i].model = model /\ ~callLog[i].ok

\* C8: the current backend changes only when it throttled on all R tries of
\* a call and the fallback of that call is answered, and then to the first
\* other backend in list order that answers; every later call sends its
\* first request to that backend, whatever calls were made in between, until
\* a call in which that backend itself throttles on all its tries.
C8_Stickiness ==
    /\ [][pc' # "interrupted" => C8_Step]_vars
    /\ [][C8_Kept]_vars

\* the first request of a call goes to the second backend of the list, which
\* the fallback of an earlier call switched to, and is answered
C8_Witness ==
    /\ pc = "returned"
    /\ fb = 0
    /\ Len(callLog) = 1
    /\ switched = models_to_try[2]
    /\ model = models_to_try[2]
    /\ current_model_name = models_to_try[2]
    /\ callLog[1].model = models_to_try[2]
    /\ callLog[1].ok

\* what a step of the run other than an interrupt does, for C9_BackoffDoubles
C9_Step ==
    /\ (pc = "call" /\ retry < max_retries - 1 /\ pc' # "returned"
        /\ lastFailure'[1].msg = ThrottleMsg) => pc' = "sleep"
    /\ pc = "sleep" =>
         /\ pc' = "call"
         /\ model' = model
         /\ retry' = retry + 1
         /\ Len(sleeps') = Len(sleeps) + 1
    /\ \A i \in 1..(Len(sleeps') - 1) : sleeps'[i + 1] = 2 * sleeps'[i]

\* C9: a throttling failure before the final try causes a backoff sleep and
\* another try on the same backend, and the backoff delays double: each is
\* twice the one before.
C9_BackoffDoubles == [][pc' # "interrupted" => C9_Step]_vars

\* C10: when the current backend throttled on all R tries and every fallback
\* backend failed too, the call raises an error, and the error is the last
\* failure of the call, that of the last backend called.
C10_RaisesLastFailure ==
    (pc = "raised" /\ fb > Len(models_to_try)) =>
        (raised # <<>> /\ raised = lastFailure)

\* C11: an adapter call raises a throttling failure only when the backends
\* are exhausted: every backend of the candidate list was called at least
\* once in the call, and every call of it failed.
C11_ThrottlingOnlyWhenExhausted ==
    (pc = "raised" /\ raised # <<>> /\ raised[1].msg = ThrottleMsg) =>
        /\ \A k \in 1..Len(models_to_try) :
             \E i \in 1..Len(callLog) : callLog[i].model = models_to_try[k]
        /\ \A i \in 1..Len(callLog) : ~callLog[i].ok

\* the calls of this adapter call made to the backend m
CallsTo(m) == {i \in 1..Len(callLog) : callLog[i].model = m}

\* what the adapter call has used up so far
AdapterBounded ==
    callLog # <<>> =>
        /\ Cardinality(CallsTo(callLog[1].model)) <= max_retries
        /\ Len(sleeps) <= max_retries - 1
        /\ \A k \in 1..Len(models_to_try) :
             models_to_try[k] # callLog[1].model =>
                 Cardinality(CallsTo(models_to_try[k])) <= 1

\* the work done in the adapter call: calls, sleeps, backends passed
AdapterMeasure == Len(callLog) + Len(sleeps) + fb

\* while the adapter call runs, one of its steps can be taken
AdapterCanStep ==
    pc \in {"call", "sleep", "fallback"} =>
        ENABLED (CallCurrent \/ Backoff \/ FallbackSkip \/ FallbackCall \/ FallbackExhausted)

\* a step of the adapter call ends it or adds to the work done
C12_Step ==
    pc \in {"call", "sleep", "fallback"} =>
        \/ pc' \in {"returned", "raised"}
        \/ AdapterMeasure' > AdapterMeasure

\* C12: every adapter call ends, whatever the backends do: at most R calls
\* of the current backend, at most R - 1 backoff sleeps and at most one call
\* of each other backend, every step adding to this bounded work until the
\* call returns a text or raises.
C12_AdapterTerminates ==
    /\ [](AdapterBounded /\ AdapterCanStep)
    /\ [][pc' # "interrupted" => C12_Step]_vars

(***************************************************************************)
(* Properties of the run over the files.                                   *)
(***************************************************************************)
\* how far the processing of the current attempt is
StageRank ==
    CASE pc = "generate" -> 1
      [] pc \in {"call", "sleep", "fallback"} -> 2
      [] pc \in {"returned", "raised"} -> 3
      [] pc = "validate" -> 4
      [] pc = "decide" -> 5
      [] pc = "while" -> 6
      [] pc = "final" -> 7
      [] OTHER -> 0

\* how far the run is: files finished, attempts of the file, stage of the
\* attempt, work of the adapter call, reports saved
RunRank ==
    1000 * (MaxM + 3) * (2 * fileIdx + (IF pc = "file" THEN 1 ELSE 0)
                                     + (IF pc = "done" THEN 2 ELSE 0))
    + 1000 * attempt + 100 * StageRank + AdapterMeasure + Len(saved_reports)

\* while the run is not over it has a next step: the write of the returned
\* text (generator.py 210-223) or a step of one of the other statements
RunCanStep ==
    pc \notin {"done", "interrupted"} =>
        \/ pc = "returned"
        \/ ENABLED (NextFile \/ LoopTest \/ BuildPrompt \/ CallCurrent \/ Backoff
                    \/ FallbackSkip \/ FallbackCall \/ FallbackExhausted
                    \/ GenerationFailed \/ Validate \/ Decide \/ ProcessFinal
                    \/ SaveReport \/ Finish)

\* a step of the run takes it further, and a file is started only when the
\* file before it is finished
C13_Step ==
    /\ RunRank' > RunRank
    /\ fileIdx' # fileIdx => (fileIdx' = fileIdx + 1 /\ pc = "file" /\ pc' = "while")
    /\ (pc' = "file" /\ pc # "file") => (pc = "final" /\ fileIdx' = fileIdx)
    /\ (pc' = "file" /\ pc = "file") =>
          (fileIdx' = fileIdx /\ fileIdx = NumFiles /\ validation_reports' = validation_reports)

\* C13: in a run that nothing interrupts, whatever happens to a file
\* (generation failure, exception, acceptance below the threshold), every
\* file of the list reaches the end of its processing: the run always has a
\* next step until it is over, every step takes it further in a bounded
\* order, it is over only after the last file, and the files are taken one
\* at a time, in list order, each after the one before was finished.
C13_EveryFileFinishes ==
    /\ [](RunCanStep /\ RunRank <= 1000 * (MaxM + 3) * (2 * NumFiles + 2) + NumFiles
          /\ (pc = "done" => fileIdx = NumFiles))
    /\ [][pc' # "interrupted" => C13_Step]_vars

\* a run that reached its end although the first file failed and the second
\* was accepted below the threshold
C13_Witness ==
    /\ pc = "done"
    /\ fileIdx = NumFiles
    /\ successful_generations = 1
    /\ Len(validation_reports) = 1
    /\ validation_reports[1].file = TestFileName(SourceFile(2))
    /\ validation_reports[1].quality = "Low"
    /\ args.quality_threshold = "high"

\* the file's processing ends on an attempt after the first whose report
\* reaches the threshold, regeneration being enabled
AcceptedAfterRegeneration ==
    /\ pc = "final"
    /\ args.regenerate_on_low_quality
    /\ attempt >= 2
    /\ Succeeded(final_result)
    /\ TierRank(final_validation[1].quality) >= ThresholdRank(args.quality_threshold)

\* what a step of the run other than an interrupt does, for
\* C14_RegenerationAccepted
C14_Step ==
    /\ (/\ pc = "decide"
        /\ args.regenerate_on_low_quality
        /\ attempt >= 2
        /\ TierRank(validation_result[1].quality) >= ThresholdRank(args.quality_threshold))
       => /\ pc' = "final"
          /\ final_result' = result
          /\ final_validation' = validation_result
          /\ disk' = disk
          /\ attempt' = attempt
    /\ AcceptedAfterRegeneration
       => /\ attempt <= args.max_regeneration_attempts + 1
          /\ regeneration_stats.total_regenerations >= attempt - 1
          /\ disk[fileIdx] # <<>>
          /\ final_result[1].test_file = TestFileName(SourceFile(fileIdx))
          /\ final_validation[1].issues = lastIssues
          /\ \E p \in FaultPoints :
                final_validation[1]
                  = validate_test_file(disk[fileIdx], SourceFile(fileIdx), p)
          /\ successful_generations' = successful_generations + 1
          /\ validation_reports' = Append(validation_reports, final_validation[1])
          /\ regeneration_stats' =
                [regeneration_stats EXCEPT !.successful_regenerations = @ + 1]
          /\ disk' = disk

\* C14: with regeneration enabled, when the attempts before attempt k of a
\* file scored below the threshold and attempt k (2 <= k <= maximum) reaches
\* it, the file is accepted at attempt k: the result and the report kept are
\* those of attempt k, the test file of attempt k stays on disk, the file is
\* counted with that report, and successful_regenerations grows by exactly 1.
C14_RegenerationAccepted == [][pc' # "interrupted" => C14_Step]_vars

\* the second file was accepted High under threshold high at its third
\* attempt, after two regenerations; the first file had failed
C14_Witness ==
    /\ pc = "file"
    /\ fileIdx = 2
    /\ args.regenerate_on_low_quality
    /\ args.quality_threshold = "high"
    /\ regeneration_stats.total_regenerations = 2
    /\ regeneration_stats.successful_regenerations = 1
    /\ successful_generations = 1
    /\ Len(validation_reports) = 1
    /\ validation_reports[1].quality = "High"
    /\ disk[2] # <<>>

(***************************************************************************)
(* Properties of the Context Builder's needs-stub list.                    *)
(***************************************************************************)
\* the names that can be called, defined or mapped
AllNames ==
    FunctionNames \cup DOMAIN dependency_map
    \cup {analysis[1].called_functions[k] : k \in 1..Len(analysis[1].called_functions)}

\* C15: the needs-stub list built for a file contains a symbol s if and only
\* if s is called in the file, is not defined in it, is a key of the symbol
\* table, and the table maps s to a different file than the one being
\* processed; a symbol the table gives to the file itself, or does not hold,
\* is never listed.
C15_NeedsStubExactly ==
    analysis # <<>> =>
        LET a == analysis[1]
        IN  \A s \in AllNames :
                Contains(functions_that_need_stubs, s)
                <=> /\ Contains(a.called_functions, s)
                    /\ \A k \in 1..Len(a.functions) : a.functions[k].name # s
                    /\ s \in DOMAIN dependency_map
                    /\ dependency_map[s] # c_files[fileIdx]

\* the file calls two functions it does not define, one owned by another
\* file and one owned by the file itself; only the first is listed
C15_Witness ==
    /\ analysis # <<>>
    /\ c_files[fileIdx] = "src/util.c"
    /\ analysis[1].called_functions = <<"add", "wdt_feed">>
    /\ analysis[1].functions = <<>>
    /\ dependency_map = [name \in {"add", "wdt_feed"} |->
                            IF name = "add" THEN "src/sensor.c" ELSE "src/util.c"]
    /\ functions_that_need_stubs = <<"add">>

(***************************************************************************)
(* Properties of the end of the run.                                       *)
(***************************************************************************)
\* the final report of some file is below the configured threshold
SomeReportBelowThreshold ==
    \E i \in 1..Len(validation_reports) :
        TierRank(validation_reports[i].quality) < ThresholdRank(args.quality_threshold)

\* C16: when regeneration is disabled and the final report of at least one
\* file is below the configured threshold, the run exits with a non-zero
\* status.
C16_StrictThresholdExit ==
    (pc = "done" /\ ~args.regenerate_on_low_quality /\ SomeReportBelowThreshold)
        => (exit_status # <<>> /\ exit_status[1] # 0)

\* every file was generated and reported, regeneration is disabled, one
\* report is below the threshold, and the run exited with status 1
C16_Witness ==
    /\ pc = "done"
    /\ ~args.regenerate_on_low_quality
    /\ successful_generations = NumFiles
    /\ Len(validation_reports) = NumFiles
    /\ SomeReportBelowThreshold
    /\ exit_status = <<1>>

(***************************************************************************)
(* Properties of the Static Validator's reality checks.                    *)
(***************************************************************************)
\* the validation of the text ran to its end
ValidationComplete ==
    /\ pc = "decide"
    /\ ~Contains(validation_result[1].issues, "Validation error: check failed")

\* the issues that name a temperature value
TemperatureIssueTexts ==
    {"Temperature value " \o val \o " seems unreasonably " \o side
        \o " (valid range: -40C to 125C)"
     : val \in {"25.0", "130.0", "250.0"}, side \in {"high", "low"}}

\* C17: for a test text recognized as temperature-related, a literal 130
\* given for the temperature (declared domain -40 to 125) adds a realism
\* issue to the report and makes it not realistic, while a literal 25 for
\* the same quantity adds no issue: a text whose only line is the literal 25
\* is reported realistic, without any temperature issue.
C17_DomainRange ==
    ValidationComplete =>
        LET text == disk[fileIdx]
            report == validation_result[1]
        IN  /\ Contains(text, TempOver) =>
                /\ ~report.realistic
                /\ \E i \in 1..Len(report.issues) : report.issues[i] \in TemperatureIssueTexts
            /\ text = <<TempNominal>> =>
                /\ report.realistic
                /\ \A i \in 1..Len(report.issues) : report.issues[i] \notin TemperatureIssueTexts

(***************************************************************************)
(* Properties of the Output Normalizer.                                    *)
(***************************************************************************)
\* C18: the normalizer is idempotent: applied to the text it has just
\* written for a response, whatever the response, it returns that text
\* unchanged, also when the text defines test functions (for which a main
\* running them was appended).
C18_NormalizerIdempotent ==
    pc = "validate" =>
        post_process_test_code(disk[fileIdx], SourceFile(fileIdx).includes)
            = disk[fileIdx]

\* the issue of a test file that does not include the framework header
MissingUnityIssue == "Missing required Unity include: #include \"unity.h\""

\* C19, as stated: for every test text that lacks the framework include
\* (unity.h), whatever the other checks find, the returned report has
\* compiles = false, contains the missing-include issue, and has tier Low.
C19_MissingIncludeIsReported ==
    (pc = "decide" /\ ~Contains(disk[fileIdx], IncUnity)) =>
        LET report == validation_result[1]
        IN  /\ ~report.compiles
            /\ Contains(report.issues, MissingUnityIssue)
            /\ report.quality = "Low"

\* C19, amended: for every test text that lacks the framework include,
\* whatever the other checks find, the returned report has compiles = false
\* and tier Low; it contains the missing-include issue when the compilation
\* check ran (also when a later check raised), and holds the validation
\* error alone when the validation raised before its first check.
C19_MissingIncludeIsLow ==
    (pc = "decide" /\ ~Contains(disk[fileIdx], IncUnity)) =>
        LET report == validation_result[1]
        IN  /\ ~report.compiles
            /\ report.quality = "Low"
            /\ \/ Contains(report.issues, MissingUnityIssue)
               \/ report.issues = <<"Validation error: check failed">>

\* a text without the include and with nothing else wrong but the absence
\* of test functions: two issues, not compiling, Low
C19_Witness ==
    /\ pc = "decide"
    /\ disk[fileIdx] = <<TempNominal>>
    /\ validation_result[1].issues
         = <<MissingUnityIssue, "No test functions found (functions should start with 'test_')">>
    /\ validation_result[1].realistic
    /\ ~validation_result[1].compiles
    /\ validation_result[1].quality = "Low"

(***************************************************************************)
(* Properties of cancellation.                                             *)
(***************************************************************************)
\* what the step that ends the run on an interrupt does
C20_Step ==
    /\ exit_status' # <<>>
    /\ exit_status'[1] # 0
    /\ fileIdx' = fileIdx
    /\ successful_generations' = successful_generations
    /\ validation_reports' = validation_reports
    /\ saved_reports' = saved_reports
    /\ Len(saved_reports') <= Len(validation_reports')
    /\ \A i \in 1..Len(saved_reports') : saved_reports'[i] = validation_reports'[i]
    /\ pc # "file" =>
          /\ saved_reports' = <<>>
          /\ successful_generations' <= fileIdx - 1
          /\ Len(validation_reports') <= fileIdx - 1

\* C20: an interrupt can arrive in every state of the running controller
\* and adapter (during a backend call and a backoff sleep too, and between
\* the statements of a step) and ends the run at once: nothing is done after
\* it (no attempt, no file is started), the file being processed is not
\* counted as generated and no report is recorded or saved for it (the
\* reports saved are those saved before, of files whose processing was
\* over), and the exit status is not zero.
C20_InterruptEndsRun ==
    /\ [](pc \notin {"done", "interrupted"} => ENABLED Interrupt)
    /\ [][pc # "interrupted" /\ (pc' = "interrupted" => C20_Step)]_vars

(***************************************************************************)
(* Properties of the symbol table.                                         *)
(***************************************************************************)
\* C21: the symbol table is built once, before any file is processed, and
\* no later operation changes it: through every sequence of files and
\* attempts (context building, generation, normalization, validation,
\* regeneration, interrupt) every key and every owner stay as constructed.
C21_SymbolTableFrozen ==
    /\ [](dependency_map = build_dependency_map(RepositoryFiles))
    /\ [][dependency_map' = dependency_map]_vars

\* the run is over, files were regenerated, and the table still gives the
\* function add, which the first file calls, to the second file
C21_Witness ==
    /\ pc = "done"
    /\ regeneration_stats.total_regenerations >= 2
    /\ successful_generations = NumFiles
    /\ "add" \in DOMAIN dependency_map
    /\ dependency_map["add"] = "src/util.c"
    /\ dependency_map["wdt_feed"] = "src/sensor.c"

(***************************************************************************)
(* Properties of the Static Validator's error path.                        *)
(***************************************************************************)
ValidationErrorIssue == "Validation error: check failed"

\* how many times the issue occurs in the list
Occurrences(issues, issue) ==
    Cardinality({i \in 1..Len(issues) : issues[i] = issue})

\* the report records one validation error, as its last issue, and is Low
RecordsOneError(report) ==
    /\ report.quality = "Low"
    /\ Occurrences(report.issues, ValidationErrorIssue) = 1
    /\ report.issues[Len(report.issues)] = ValidationErrorIssue

\* C22: when a check raises during a validation, whichever check it is and
\* whatever the text, the validator does not abort: validate_test_file
\* returns a report, the report is Low, and the failure is recorded in it as
\* one synthetic issue, after the issues of the checks that had completed.
\* (The reports of a text for all its fault points are compared in the state
\* that holds the complete validation of that text.)
C22_CheckErrorIsRecorded ==
    pc = "decide" =>
        /\ validation_result # <<>>
        /\ Contains(validation_result[1].issues, ValidationErrorIssue)
              => RecordsOneError(validation_result[1])
        /\ ValidationComplete =>
              \A raisedAfter \in 0..(NumChecks - 1) :
                 LET report == validate_test_file(disk[fileIdx], SourceFile(fileIdx),
                                                  raisedAfter)
                     done == RunChecks(raisedAfter, disk[fileIdx], SourceFile(fileIdx),
                                       [report EXCEPT !.issues = <<>>])
                 IN  /\ RecordsOneError(report)
                     /\ report.issues = Append(done.issues, ValidationErrorIssue)

\* the report of a validation of an over-hot temperature test whose third
\* check raised: the two issues found before, then the validation error
C22_Witness ==
    /\ pc = "decide"
    /\ disk[fileIdx] = <<THot>>
    /\ Len(validation_result[1].issues) = 3
    /\ validation_result[1].issues[3] = ValidationErrorIssue
    /\ ~validation_result[1].realistic
    /\ validation_result[1].quality = "Low"

(***************************************************************************)
(* Properties of the write of the generated text.                          *)
(***************************************************************************)
\* what the step that follows the return of the adapter does when nothing
\* interrupts it, the normalizer having rewritten the text or faulted
C23_Step ==
    pc = "returned" =>
        /\ pc' = "validate"
        /\ result'[1].success
        /\ disk'[fileIdx] \in
              {post_process_test_code(Strip(response), SourceFile(fileIdx).includes),
               Strip(response)}

\* C23: when the normalizer faults while rewriting a generated text, the
\* attempt is not aborted: the text as generated becomes the attempt's
\* artifact and the attempt goes on to validation.  So every step that
\* follows the return of the adapter writes the normalized text or the text
\* as generated, and leads to the validation of the attempt.
C23_NormalizerFaultPassesThrough == [][pc' # "interrupted" => C23_Step]_vars

(***************************************************************************)
(* Properties of the start of a file.                                      *)
(***************************************************************************)
\* C24: every file starts with no feedback: when a file is started its
\* attempt counter is 0 and it has no report, and the context of its first
\* attempt carries the "none" feedback section and no issue, whatever the
\* reports, issues and failures of the files processed before it.
C24_FirstAttemptHasNoFeedback ==
    /\ (pc = "while" /\ attempt = 0) =>
          (final_validation = <<>> /\ final_result = <<>> /\ validation_result = <<>>)
    /\ (pc = "generate" /\ attempt = 1) =>
          feedback_argument(attempt, final_validation) = <<>>
    /\ (pc \in {"call", "sleep", "fallback", "returned", "raised"} /\ attempt = 1) =>
          section = <<"NONE - First generation attempt">>

\* the first attempt of the second file, after a first file whose final
\* report lists issues
C24_Witness ==
    /\ pc = "call"
    /\ fileIdx = 2
    /\ attempt = 1
    /\ Len(validation_reports) = 1
    /\ Len(validation_reports[1].issues) >= 3
    /\ regeneration_stats.total_regenerations >= 1
    /\ section = <<"NONE - First generation attempt">>

(***************************************************************************)
(* Properties of the normalizer's include filter.                          *)
(***************************************************************************)
\* the headers an include directive of a normalized text may name for the
\* source file: the framework header, the headers the source includes, the
\* standard headers
AllowedHeaders(source) ==
    {"unity.h"} \cup {source.includes[k] : k \in 1..Len(source.includes)}
    \cup standard_headers

\* C25: after normalization every include directive left in the text names
\* a header of the allow-list (the framework header, a header the source
\* file itself includes, a standard header); an include of any other
\* header, such as an invented project header, is removed.
C25_IncludesAllowListed ==
    pc = "validate" =>
        \A i \in 1..Len(disk[fileIdx]) :
            IncludeHeader(disk[fileIdx][i]) # <<>> =>
                IncludeHeader(disk[fileIdx][i])[1] \in AllowedHeaders(SourceFile(fileIdx))

(***************************************************************************)
(* Properties of the final artifact of a file.                             *)
(***************************************************************************)
\* what the step that counts a file as generated finds and leaves on disk
C26_Step ==
    (successful_generations' = successful_generations + 1 /\ pc' # "interrupted") =>
        /\ Len(validation_reports') = Len(validation_reports) + 1
        /\ validation_reports'[Len(validation_reports')].file
              = TestFileName(SourceFile(fileIdx))
        /\ disk[fileIdx] # <<>>
        /\ disk'[fileIdx] = disk[fileIdx]

\* C26: whenever a file is counted as generated and a final report is
\* recorded for it, the test file that report describes is in the output
\* directory at the end of the file's processing: a test file removed for
\* regeneration is never the final artifact, whatever the attempts did (a
\* regeneration followed by a generation failure or an exception included).
C26_CountedFileExists == [][C26_Step]_vars

(***************************************************************************)
(* Properties of the flags and the issue list of a report.                 *)
(***************************************************************************)
\* seq is the beginning of longer
IsPrefix(seq, longer) ==
    Len(seq) <= Len(longer) /\ SubSeq(longer, 1, Len(seq)) = seq

\* from the report before a check to the report after it: a flag never goes
\* back to true, issues are only appended, and a flag that goes to false
\* comes with an issue appended
CheckOnlyDowngrades(before, after) ==
    /\ after.compiles => before.compiles
    /\ after.realistic => before.realistic
    /\ IsPrefix(before.issues, after.issues)
    /\ (before.compiles /\ ~after.compiles) => Len(after.issues) > Len(before.issues)
    /\ (before.realistic /\ ~after.realistic) => Len(after.issues) > Len(before.issues)

\* C27: in every report validate_test_file returns, the report of the error
\* path included, compiles = false or realistic = false implies that the
\* issue list is not empty; and through the checks of one validation the
\* flags only go from true to false, issues are only appended, and every
\* downgrade of a flag appends an issue.  (The chain of the checks of a text
\* is followed in the state that holds the complete validation of that text.)
C27_FlagsImplyIssues ==
    pc = "decide" =>
        LET report == validation_result[1]
            text == disk[fileIdx]
            source == SourceFile(fileIdx)
            fresh == [report EXCEPT !.compiles = TRUE, !.realistic = TRUE,
                                    !.quality = "High", !.issues = <<>>]
        IN  /\ (~report.compiles \/ ~report.realistic) => report.issues # <<>>
            /\ ValidationComplete =>
                  \A k \in 1..NumChecks :
                     CheckOnlyDowngrades(RunChecks(k - 1, text, source, fresh),
                                         RunChecks(k, text, source, fresh))
            /\ \E k \in 0..NumChecks :
                  CheckOnlyDowngrades(RunChecks(k, text, source, fresh), report)

\* a complete validation that lowered both flags: the text compares floats
\* exactly (not realistic), calls main and lacks the framework include (not
\* compiling)
C27_Witness ==
    /\ pc = "decide"
    /\ disk[fileIdx] = <<TRead, MainCall>>
    /\ ~validation_result[1].compiles
    /\ ~validation_result[1].realistic
    /\ ~Contains(validation_result[1].issues, "Validation error: check failed")
    /\ Len(validation_result[1].issues) >= 3

(***************************************************************************)
(* Properties of the regeneration statistics.                              *)
(***************************************************************************)
\* what a step does to the statistics: a regeneration is counted once, by
\* the decision of an attempt among the first M of the file, and a
\* successful regeneration once, by the final processing of the file; within
\* a file the attempt counter never goes back, so that no attempt of a file
\* is counted twice
C28_Step ==
    LET total == regeneration_stats.total_regenerations
        successful == regeneration_stats.successful_regenerations
        total_after == regeneration_stats'.total_regenerations
        successful_after == regeneration_stats'.successful_regenerations
    IN  /\ total_after # total =>
              /\ total_after = total + 1
              /\ successful_after = successful
              /\ pc = "decide" /\ pc' \in {"while", "final", "interrupted"}
              /\ attempt <= args.max_regeneration_attempts
              /\ pc' # "interrupted" => attempt' = attempt
              /\ cycles = attempt
        /\ successful_after # successful =>
              /\ successful_after = successful + 1
              /\ total_after = total
              /\ pc = "final" /\ pc' = "file"
              /\ attempt >= 2
        /\ (fileIdx' = fileIdx /\ pc' \notin {"file", "interrupted"}) => attempt' >= attempt
        /\ pc' = "decide" => cycles' = attempt'

\* C28: in every reachable state successful_regenerations is at most
\* total_regenerations; for each file total_regenerations grows by at most M
\* (one regeneration per attempt, for the attempts 1..M only; by none when
\* the configured M is negative) and
\* successful_regenerations by at most 1 (in the file's final processing);
\* both stay 0 through the run when regeneration is disabled or the
\* threshold is low.
C28_RegenerationStats ==
    /\ [](/\ regeneration_stats.successful_regenerations
               <= regeneration_stats.total_regenerations
          /\ regeneration_stats.total_regenerations
               <= (IF args.max_regeneration_attempts < 0 THEN 0
                   ELSE args.max_regeneration_attempts) * fileIdx
          /\ regeneration_stats.successful_regenerations <= fileIdx
          /\ (~args.regenerate_on_low_quality \/ args.quality_threshold = "low") =>
                (/\ regeneration_stats.total_regenerations = 0
                 /\ regeneration_stats.successful_regenerations = 0))
    /\ [][C28_Step]_vars

\* the run is over; each of the two files was regenerated twice and then
\* accepted
C28_Witness ==
    /\ pc = "done"
    /\ args.max_regeneration_attempts = 2
    /\ regeneration_stats.total_regenerations = 4
    /\ regeneration_stats.successful_regenerations = 2

(***************************************************************************)
(* Failures during the fallback.                                           *)
(***************************************************************************)
\* the place of a backend in the candidate list
ListIndex(m) == CHOOSE k \in 1..Len(models_to_try) : models_to_try[k] = m

\* what a step of the run other than an interrupt does, for
\* C29_FallbackFailureGoesOn
C29_Step ==
    /\ (pc = "fallback" /\ fb <= Len(models_to_try)
        /\ models_to_try[fb] # original_model /\ pc' # "returned") =>
         /\ pc' = "fallback"
         /\ fb' = fb + 1
         /\ lastFailure'[1].msg \in ErrorMsgs
         /\ lastFailure'[1].model = models_to_try[fb]
         /\ \/ callLog' = callLog
            \/ callLog' = Append(callLog, [model |-> models_to_try[fb], ok |-> FALSE])
         /\ sleeps' = sleeps
         /\ retry' = retry
         /\ raised' = raised
         /\ last_error' = last_error
         /\ model' = model
         /\ current_model_name' = current_model_name
    /\ (pc = "fallback" /\ pc' = "raised") =>
         /\ fb > Len(models_to_try)
         /\ \A i \in 1..Len(FallbackCalls) :
              ~FallbackCalls[i].ok /\ FallbackCalls[i].model # original_model
         /\ \A i, j \in 1..Len(FallbackCalls) :
              i < j => ListIndex(FallbackCalls[i].model) < ListIndex(FallbackCalls[j].model)
         /\ callLog' = callLog
         /\ sleeps' = sleeps
         /\ model' = model
         /\ current_model_name' = current_model_name
         /\ switched' = switched
         /\ model = callLog[1].model
         /\ current_model_name = original_model

\* C29: a fallback backend that fails, with a throttling message or with any
\* other, at its request or at its construction, does not end the adapter
\* call: the loop goes on to the next backend of the list, with no sleep and
\* no second request to the same backend; and when every fallback backend
\* has failed and the call raises, the current backend, object and name, is
\* what it was when the call began.
C29_FallbackFailureGoesOn == [][pc' # "interrupted" => C29_Step]_vars

\* the call raises after both fallback backends failed, the first of them at
\* its construction, the last at its request with a message that is not a
\* throttling one; the current backend is still the one the call started on
C29_Witness ==
    /\ pc = "raised"
    /\ fb > Len(models_to_try)
    /\ Len(callLog) = max_retries + 1
    /\ callLog[max_retries + 1].model = FallbackOrder[Len(FallbackOrder)]
    /\ lastFailure # <<>>
    /\ lastFailure[1].msg = OtherMsg
    /\ lastFailure[1].model # original_model
    /\ current_model_name = callLog[1].model
    /\ model = callLog[1].model

(***************************************************************************)
(* The framework include after normalization.                              *)
(***************************************************************************)
\* C30: whatever the response, the text the generator writes contains the
\* framework include; the report of its validation, complete or cut short
\* by a check that raised, does not contain the missing-include issue, and
\* neither does the report an attempt is decided on nor any report kept
\* for the run.
C30_FrameworkIncludePresent ==
    /\ pc = "validate" =>
         /\ Contains(disk[fileIdx], IncUnity)
         /\ \A raisedAfter \in 0..NumChecks :
              ~Contains(validate_test_file(disk[fileIdx], SourceFile(fileIdx),
                                           raisedAfter).issues,
                        MissingUnityIssue)
    /\ pc = "decide" => ~Contains(validation_result[1].issues, MissingUnityIssue)
    /\ \A i \in 1..Len(validation_reports) :
         ~Contains(validation_reports[i].issues, MissingUnityIssue)

\* the written text is one line longer than the longest response: the
\* include was inserted in front of a response that had none
C30_Witness ==
    /\ pc = "validate"
    /\ attempt = 1
    /\ Len(disk[fileIdx]) = MaxTextLen + 1
    /\ disk[fileIdx][1] = IncUnity
    /\ \A i \in 2..Len(disk[fileIdx]) : disk[fileIdx][i] = TempNominal

=============================================================================
